---- MODULE Spec2Model ----
(***************************************************************************)
(* A model of the jstar-rs embedding layer: the VM handle and its          *)
(* Uninit/Init type-state, the Owned/NonOwned ownership tag, the           *)
(* trampoline state registered as the foreign runtime's custom data, and   *)
(* the validated stack accessors of src/src/vm.rs.  The foreign J* runtime *)
(* is reached only through the ABI declared in src/jstar-sys/src/lib.rs;   *)
(* its side of every call is modelled by the jsr* operators below.         *)
(***************************************************************************)
EXTENDS Integers, Sequences, FiniteSets, TLC

\* Largest number of values the model lets the foreign stack hold.
MaxLen == 2
\* Largest number of nested execution contexts (foreign run, host callback).
MaxDepth == 2
\* Largest number of StackRef / String views followed at a time.
MaxViews == 1

VARIABLES
    rt,       \* the foreign runtime instance: status and registered custom data
    tramp,    \* the boxed Trampolines: status, heap address, stored callbacks
    log,      \* lifecycle calls made so far, in order
    handles,  \* the VM wrappers that exist, by identity
    stack,    \* the foreign value stack, bottom first
    cap,      \* the capacity of the foreign stack, in slots
    frames,   \* the execution contexts above the host's top level
    views,    \* the live StackRef / String views
    aborted,  \* "no", or how the process stopped
    last,     \* the wrapper operation that ran last, and its outcome
    heap      \* the import buffers allocated by import_trampoline and not yet released

vars == <<rt, tramp, log, handles, stack, cap, frames, views, aborted, last, heap>>

----------------------------------------------------------------------------
\* Values

\* The one heap address Box::new hands out for the Trampolines.
BoxAddr == 1
NullPtr == 0

\* A double: (-1)^neg * mag * 2^exp, mag a bit string (most significant bit
\* first, no leading zero, odd or empty), or an infinity or a NaN.
Fin(neg, mag, exp) == [k |-> "fin", neg |-> neg, mag |-> mag, exp |-> exp]
Zero == Fin(FALSE, <<>>, 0)

\* A value of the foreign stack: its type, and its number or its bytes.
Num(d)  == [t |-> "Number", n |-> d, s |-> <<>>]
Str(b)  == [t |-> "String", n |-> Zero, s |-> b]
NativeV == [t |-> "Native", n |-> Zero, s |-> <<>>]
ExcV    == [t |-> "Exception", n |-> Zero, s |-> <<>>]

HandleIds == 1..(MaxDepth + 1)
NoHandle == [own |-> "None", state |-> "None", box |-> NullPtr]
Owned(box) == [tag |-> "Owned", box |-> box]
NonOwned == [tag |-> "NonOwned", box |-> NullPtr]
Handle(st, o) == [own |-> o.tag, state |-> st, box |-> o.box]
OwnershipOf(h) == [tag |-> handles[h].own, box |-> handles[h].box]

Live(h) == handles[h] # NoHandle
FreeIds == {h \in HandleIds : ~Live(h)}
FreshId == CHOOSE h \in FreeIds : \A g \in FreeIds : h <= g

\* `last`: the operation, the wrapper it ran on, its outcome and the foreign
\* calls it made.
NoOp == [op |-> "none", h |-> 0, out |-> "ok", ffi |-> <<>>]
Did(op, h, out, ffi) == [op |-> op, h |-> h, out |-> out, ffi |-> ffi]

Init ==
    /\ rt = [status |-> "none", custom_data |-> NullPtr]
    /\ tramp = [status |-> "none", addr |-> NullPtr, error_callback |-> FALSE,
                import_callback |-> FALSE]
    /\ log = <<>>
    /\ handles = [h \in HandleIds |-> NoHandle]
    /\ stack = <<>>
    /\ cap = 0
    /\ frames = <<>>
    /\ views = {}
    /\ aborted = "no"
    /\ last = NoOp
    /\ heap = {}

----------------------------------------------------------------------------
\* The foreign side of the ABI (src/jstar-sys/src/lib.rs declares it)

\* Offset in `stack` at which the active frame starts.
Base == IF frames = <<>> THEN 0 ELSE frames[Len(frames)].base
\* Number of values in the active frame.
Height == Len(stack) - Base

\* A validation that takes the frame's height itself for a valid index.
jsrValidateSlot_inclusive(slot) == IF slot < 0 THEN Height + slot >= 0 ELSE slot <= Height
jsrValidateSlot(slot) == IF slot < 0 THEN Height + slot >= 0 ELSE slot < Height
jsrValidateStack == Len(stack) < cap
jsrTop == Height - 1
\* Position in `stack` (1-based) that a valid slot index denotes.
Pos(slot) == Base + (IF slot < 0 THEN Height + slot ELSE slot) + 1
jsrIsNumber(slot) == stack[Pos(slot)].t = "Number"
jsrIsString(slot) == stack[Pos(slot)].t = "String"

Range(s) == {s[i] : i \in 1..Len(s)}
\* What a sequence of lifecycle calls leaves of the runtime and of the box.
RtAfter(r, calls) ==
    IF "jsrFreeVM" \in Range(calls) THEN [r EXCEPT !.status = "freed"]
    ELSE IF "jsrInitRuntime" \in Range(calls) THEN [r EXCEPT !.status = "init"]
    ELSE r
TrampAfter(t, calls) ==
    IF "drop_box" \in Range(calls) THEN [t EXCEPT !.status = "released"] ELSE t

----------------------------------------------------------------------------
\* Lifecycle (vm.rs: Drop for VM, VM::new, VM::init_runtime, VM::from_ptr)

\* Drop for VM: only an Owned wrapper calls jsrFreeVM; the Box<Trampolines> it
\* holds is released by the field drop that follows the drop body.
DropCalls(o) == IF o.tag = "Owned" THEN <<"jsrFreeVM", "drop_box">> ELSE <<>>

\* std::mem::replace(dest, src): returns the old value and leaves src behind.
ReplaceNoMove(dest, src) == [ret |-> dest, left |-> dest]
Replace(dest, src) == [ret |-> dest, left |-> src]

\* Moving a Box moves the pointer, not the allocation.
MoveInline(addr) == addr + 1
MoveBox(addr) == addr

StartSizes == {MaxLen - 1}
\* The configurations tried: no callback stored, or both.
Confs == {[error_callback |-> b, import_callback |-> b, starting_stack_sz |-> n] :
             b \in BOOLEAN, n \in StartSizes}

New(conf, null) ==
    /\ aborted = "no"
    /\ rt.status = "none"
    /\ log' = log \o <<"jsrNewVM">>
    /\ IF null
       THEN \* assert!(!vm.is_null())
            /\ aborted' = "panic"
            /\ last' = [NoOp EXCEPT !.op = "new", !.out = "abort", !.ffi = <<"jsrNewVM">>]
            /\ UNCHANGED <<rt, tramp, handles, cap>>
       ELSE /\ tramp' = [status |-> "alloc", addr |-> MoveBox(BoxAddr),
                         error_callback |-> conf.error_callback,
                         import_callback |-> conf.import_callback]
            /\ rt' = [status |-> "new", custom_data |-> BoxAddr]
            /\ cap' = conf.starting_stack_sz
            /\ handles' = [handles EXCEPT ![FreshId] = Handle("Uninit", Owned(MoveBox(BoxAddr)))]
            /\ last' = [NoOp EXCEPT !.op = "new", !.h = FreshId, !.ffi = <<"jsrNewVM">>]
            /\ UNCHANGED aborted
    /\ UNCHANGED <<stack, frames, views, heap>>

\* The receiver each method takes (its signature in vm.rs).
ReceiverShared(op) == IF op \in {"init_runtime", "drop"} THEN "owned" ELSE "shared"
Receiver(op) ==
    IF op \in {"call", "pop", "pop_n"} THEN "exclusive"
    ELSE IF op \in {"init_runtime", "drop"} THEN "owned"
    ELSE "shared"

\* The phases whose impl block defines the method.
PhasesAll(op) == {"Uninit", "Init"}
Phases(op) ==
    IF op \in {"new", "init_runtime"} THEN {"Uninit"}
    ELSE IF op \in {"compile", "compile_in_memory", "drop"} THEN {"Uninit", "Init"}
    ELSE {"Init"}

ViewsOn(h) == {v \in views : v.h = h}
\* The wrapper the running host code holds: the top-level one, or the
\* NonOwned one made for the callback that is running.
HostTurn == IF frames = <<>> THEN TRUE
            ELSE frames[Len(frames)].kind \in {"native", "import"}
Current(h) == IF frames = <<>> THEN TRUE ELSE frames[Len(frames)].h = h
Usable(h, op) ==
    /\ aborted = "no"
    /\ Live(h)
    /\ HostTurn /\ Current(h)
    /\ handles[h].state \in Phases(op)
    /\ Receiver(op) # "shared" => ViewsOn(h) = {}

init_runtime(h) ==
    /\ Usable(h, "init_runtime")
    /\ LET r == Replace(OwnershipOf(h), NonOwned)
           moved == IF r.ret.tag = "Owned" THEN Owned(MoveBox(r.ret.box)) ELSE r.ret
           calls == <<"jsrInitRuntime">> \o DropCalls(r.left)
           g == CHOOSE x \in FreeIds : TRUE
       IN /\ FreeIds # {}
          /\ handles' = [handles EXCEPT ![h] = NoHandle, ![g] = Handle("Init", moved)]
          /\ rt' = RtAfter(rt, calls)
          /\ tramp' = [TrampAfter(tramp, calls) EXCEPT !.addr = MoveBox(@)]
          /\ log' = log \o calls
          /\ last' = Did("init_runtime", h, "ok", calls)
    /\ UNCHANGED <<stack, cap, frames, views, aborted, heap>>

\* A wrapper going out of scope at the host's top level.
Drop(h) ==
    /\ Usable(h, "drop")
    /\ frames = <<>>
    /\ LET calls == DropCalls(OwnershipOf(h))
       IN /\ handles' = [handles EXCEPT ![h] = NoHandle]
          /\ rt' = RtAfter(rt, calls)
          /\ tramp' = TrampAfter(tramp, calls)
          /\ log' = log \o calls
          /\ last' = Did("drop", h, "ok", calls)
          \* jsrFreeVM releases the foreign stack with the runtime
          /\ stack' = IF "jsrFreeVM" \in Range(calls) THEN <<>> ELSE stack
          /\ cap' = IF "jsrFreeVM" \in Range(calls) THEN 0 ELSE cap
    /\ UNCHANGED <<frames, views, aborted, heap>>

----------------------------------------------------------------------------
\* Stack accessors (vm.rs, impl VM<Init>).  Each wrapper is an operator that
\* yields the outcomes it can have in the current state: what it returns, the
\* foreign calls it made, and the stack it leaves.

R(out, ffi, st) == [out |-> out, ffi |-> ffi, stack |-> st]

validate_slot(slot) == jsrValidateSlot(slot)
validate_stack == jsrValidateStack

jsrPopN(n) == SubSeq(stack, 1, Len(stack) - n)
\* A foreign push does not check for room: with none left the write lands past
\* the stack's allocation, or the process dies.
PushRuns(out, ffi, v) ==
    IF jsrValidateStack THEN {R(out, ffi, Append(stack, v))}
    ELSE {R(out, ffi, Append(stack, v)), R("crash", ffi, stack)}

\* The slot indices tried: every valid one, and one beyond at each end.
Slots == (0 - Height - 1)..Height

pop_runs_nocheck == {R("ok", <<"jsrPop">>, jsrPopN(1))}
pop_runs ==
    IF ~validate_slot(-1) THEN {R("abort", <<"jsrValidateSlot">>, stack)}
    ELSE {R("ok", <<"jsrValidateSlot", "jsrPop">>, jsrPopN(1))}

\* A pop_n that pops one value whatever the count.
pop_n_runs_once(n) ==
    IF ~(n > 0) THEN {R("abort", <<>>, stack)}
    ELSE IF ~validate_slot(0 - n) THEN {R("abort", <<"jsrValidateSlot">>, stack)}
    ELSE {R("ok", <<"jsrValidateSlot", "jsrPopN">>, jsrPopN(1))}
pop_n_runs_nocheck(n) ==
    IF ~(n > 0) THEN {R("abort", <<>>, stack)} ELSE {R("ok", <<"jsrPopN">>, jsrPopN(n))}
pop_n_runs(n) ==
    IF ~(n > 0) THEN {R("abort", <<>>, stack)}
    ELSE IF ~validate_slot(0 - n) THEN {R("abort", <<"jsrValidateSlot">>, stack)}
    ELSE {R("ok", <<"jsrValidateSlot", "jsrPopN">>, jsrPopN(n))}

push_number_runs(d) ==
    IF ~validate_stack THEN {R("abort", <<"jsrValidateStack">>, stack)}
    ELSE PushRuns("ok", <<"jsrValidateStack", "jsrPushNumber">>, Num(d))

\* Length of a byte slice up to its first zero byte: what a C string holds.
CStrLen(b) ==
    IF \A i \in 1..Len(b) : b[i] # 0 THEN Len(b)
    ELSE (CHOOSE i \in 1..Len(b) : b[i] = 0 /\ \A j \in 1..(i - 1) : b[j] # 0) - 1
\* str.len(): the length push_string hands over with the pointer.
SliceLen(b) == Len(b)
\* jsrPushStringSz copies len bytes from the pointer into a new String.
jsrPushStringSz(b, len) == Str(SubSeq(b, 1, len))
push_string_runs(b) == PushRuns("ok", <<"jsrPushStringSz">>, jsrPushStringSz(b, SliceLen(b)))

\* jsrPushNative raises, leaving an exception, when the module does not exist.
push_native_runs(found) ==
    PushRuns(IF found THEN "ok" ELSE "err", <<"jsrPushNative">>,
             IF found THEN NativeV ELSE ExcV)

is_number_runs(slot) ==
    IF ~validate_slot(slot) THEN {R("abort", <<"jsrValidateSlot">>, stack)}
    ELSE {R(IF jsrIsNumber(slot) THEN "true" ELSE "false",
            <<"jsrValidateSlot", "jsrIsNumber">>, stack)}

\* get_number raising like check_number does on a mismatch.
get_number_runs_raising(slot) ==
    {IF r.out = "abort" THEN r
     ELSE IF r.out = "false" THEN R("none", r.ffi, Append(stack, ExcV))
     ELSE R("some", r.ffi \o <<"jsrGetNumber">>, stack) : r \in is_number_runs(slot)}
get_number_runs(slot) ==
    {IF r.out = "abort" THEN r
     ELSE IF r.out = "false" THEN R("none", r.ffi, stack)
     ELSE R("some", r.ffi \o <<"jsrGetNumber">>, stack) : r \in is_number_runs(slot)}

\* check_number with the test of jsrCheckNumber's answer inverted.
check_number_runs_inverted(slot) ==
    IF ~validate_slot(slot) THEN {R("abort", <<"jsrValidateSlot">>, stack)}
    ELSE IF ~jsrIsNumber(slot)
    THEN PushRuns("ok", <<"jsrValidateSlot", "jsrCheckNumber", "jsrGetNumber">>, ExcV)
    ELSE {R("err", <<"jsrValidateSlot", "jsrCheckNumber">>, stack)}
\* jsrCheckNumber raises a TypeException, left on the stack, on a mismatch.
check_number_runs(slot) ==
    IF ~validate_slot(slot) THEN {R("abort", <<"jsrValidateSlot">>, stack)}
    ELSE IF ~jsrIsNumber(slot)
    THEN PushRuns("err", <<"jsrValidateSlot", "jsrCheckNumber">>, ExcV)
    ELSE {R("ok", <<"jsrValidateSlot", "jsrCheckNumber", "jsrGetNumber">>, stack)}

is_string_runs(slot) ==
    IF ~validate_slot(slot) THEN {R("abort", <<"jsrValidateSlot">>, stack)}
    ELSE {R(IF jsrIsString(slot) THEN "true" ELSE "false",
            <<"jsrValidateSlot", "jsrIsString">>, stack)}

get_string_runs(slot) ==
    {IF r.out = "abort" THEN r
     ELSE IF r.out = "false" THEN R("none", r.ffi, stack)
     ELSE R("some", r.ffi \o <<"jsrGetString", "jsrGetStringSz">>, stack) :
        r \in is_string_runs(slot)}

check_string_runs(slot) ==
    IF ~validate_slot(slot) THEN {R("abort", <<"jsrValidateSlot">>, stack)}
    ELSE IF ~jsrIsString(slot)
    THEN PushRuns("err", <<"jsrValidateSlot", "jsrCheckString">>, ExcV)
    ELSE {R("ok", <<"jsrValidateSlot", "jsrCheckString", "jsrGetString", "jsrGetStringSz">>,
            stack)}

\* The foreign lookup finds the global or raises: `found` is its answer.
\* get_global that pushes nothing when the lookup fails.
get_global_runs_bare(found, v) ==
    IF ~validate_stack THEN {R("abort", <<"jsrValidateStack">>, stack)}
    ELSE IF found THEN PushRuns("ok", <<"jsrValidateStack", "jsrGetGlobal">>, v)
    ELSE {R("err", <<"jsrValidateStack", "jsrGetGlobal">>, stack)}
\* get_global: jsrGetGlobal pushes the value, or raises, leaving an exception,
\* when the name or the module does not exist.
get_global_runs(found, v) ==
    IF ~validate_stack THEN {R("abort", <<"jsrValidateStack">>, stack)}
    ELSE PushRuns(IF found THEN "ok" ELSE "err", <<"jsrValidateStack", "jsrGetGlobal">>,
                  IF found THEN v ELSE ExcV)

set_global_runs(found) ==
    IF ~validate_slot(-1) THEN {R("abort", <<"jsrValidateSlot">>, stack)}
    ELSE IF found THEN {R("ok", <<"jsrValidateSlot", "jsrSetGlobal">>, stack)}
    ELSE PushRuns("err", <<"jsrValidateSlot", "jsrSetGlobal">>, ExcV)

\* get_top: the StackRef's index is whatever jsrTop answers.
get_top_runs == {[R("ok", <<"jsrTop">>, stack) EXCEPT !.out = "ok"]}
get_top_index == jsrTop

\* peek_top: the index of the StackRef it returns.
peek_top_index(slot) == jsrTop - slot
peek_top_runs(slot) ==
    IF ~(slot > 0) THEN {R("abort", <<>>, stack)}
    ELSE IF ~validate_slot(peek_top_index(slot))
    THEN {R("abort", <<"jsrTop", "jsrValidateSlot">>, stack)}
    ELSE {R("ok", <<"jsrTop", "jsrValidateSlot">>, stack)}

\* call with the check for the arguments only, not for the callee.
call_check_args(argc) == argc = 0 \/ validate_slot(0 - argc)
\* call: the check made before jsrCall is entered.
call_check(argc) == validate_slot(0 - (argc + 1))

----------------------------------------------------------------------------
\* The host's steps

\* One outcome of a wrapper takes effect.  A failed assert! panics before
\* anything else happens; a crash ends the process.
Apply(op, h, r) ==
    /\ Len(r.stack) <= MaxLen
    /\ aborted' = (CASE r.out = "abort" -> "panic" [] r.out = "crash" -> "crash"
                     [] OTHER -> "no")
    /\ stack' = r.stack
    /\ last' = Did(op, h, r.out, r.ffi)
    /\ UNCHANGED <<rt, tramp, log, handles, cap, frames, heap>>

Run(op, h, runs) ==
    /\ Usable(h, op)
    /\ \E r \in runs : Apply(op, h, r)
    /\ UNCHANGED views

\* A String view or a StackRef borrows the wrapper it was read through; the
\* caller keeps the view it is handed, or lets it go at once.  The model
\* follows at most MaxViews live views at a time.
View(kind, h, index) == [kind |-> kind, h |-> h, index |-> index]
RunView(op, h, runs, v, keep) ==
    /\ Usable(h, op)
    /\ \E r \in runs :
         /\ Apply(op, h, r)
         /\ IF keep /\ r.out \in {"ok", "some"}
            THEN Cardinality(views) < MaxViews /\ views' = views \cup {v}
            ELSE views' = views

pop(h) == Run("pop", h, pop_runs)
pop_n(h, n) == Run("pop_n", h, pop_n_runs(n))
push_number(h, d) == Run("push_number", h, push_number_runs(d))
push_string(h, b) == Run("push_string", h, push_string_runs(b))
push_native(h, found) == Run("push_native", h, push_native_runs(found))
is_number(h, slot) == Run("is_number", h, is_number_runs(slot))
get_number(h, slot) == Run("get_number", h, get_number_runs(slot))
check_number(h, slot) == Run("check_number", h, check_number_runs(slot))
is_string(h, slot) == Run("is_string", h, is_string_runs(slot))
get_string(h, slot, keep) ==
    RunView("get_string", h, get_string_runs(slot), View("String", h, Pos(slot)), keep)
check_string(h, slot, keep) ==
    RunView("check_string", h, check_string_runs(slot), View("String", h, Pos(slot)),
            keep)
get_global(h, found, v) == Run("get_global", h, get_global_runs(found, v))
set_global(h, found) == Run("set_global", h, set_global_runs(found))
get_top(h, keep) ==
    RunView("get_top", h, get_top_runs, View("StackRef", h, get_top_index), keep)
peek_top(h, slot, keep) ==
    RunView("peek_top", h, peek_top_runs(slot),
            View("StackRef", h, peek_top_index(slot)), keep)

\* A view going out of scope.
DropView(v) ==
    /\ aborted = "no"
    /\ v \in views
    /\ views' = views \ {v}
    /\ last' = [NoOp EXCEPT !.op = "drop_view", !.h = v.h]
    /\ UNCHANGED <<rt, tramp, log, handles, stack, cap, frames, aborted, heap>>

\* jsrEnsureStack taking `needed` for the size of the whole stack.
jsrEnsureStack_total(needed) == IF cap < needed THEN needed ELSE cap
\* jsrEnsureStack: the capacity after making room for `needed` more values.
jsrEnsureStack(needed) == IF cap < Len(stack) + needed THEN Len(stack) + needed ELSE cap

ensure_stack(h, needed) ==
    /\ Usable(h, "ensure_stack")
    /\ Len(stack) + needed <= MaxLen
    /\ cap' = jsrEnsureStack(needed)
    /\ last' = Did("ensure_stack", h, "ok", <<"jsrEnsureStack">>)
    /\ UNCHANGED <<rt, tramp, log, handles, stack, frames, views, aborted, heap>>

\* TryFrom<JStarResult> for Error, as the wrappers use it: Ok(()) for Success,
\* otherwise Err of the kind with the code's name.
\* TryFrom<JStarResult> for Error with two arms exchanged.
ErrorKind_swapped(res) ==
    CASE res = "SyntaxErr" -> "Compile"
      [] res = "CompileErr" -> "Syntax"
      [] res = "RuntimeErr" -> "Runtime"
      [] res = "DeserializeErr" -> "Deserialize"
      [] res = "VersionErr" -> "Version"
      [] res = "Success" -> "ok"
\* TryFrom<JStarResult> for Error; Success, which is no error, makes the
\* caller return Ok(()).
ErrorKind(res) ==
    CASE res = "SyntaxErr" -> "Syntax"
      [] res = "CompileErr" -> "Compile"
      [] res = "RuntimeErr" -> "Runtime"
      [] res = "DeserializeErr" -> "Deserialize"
      [] res = "VersionErr" -> "Version"
      [] res = "Success" -> "ok"
JStarResult == {"Success", "SyntaxErr", "CompileErr", "RuntimeErr", "DeserializeErr",
                "VersionErr"}

\* A compile that returns the write's error with `?`, before the release.
compile_runs_early(res, written) ==
    IF ErrorKind(res) # "ok"
    THEN [out |-> ErrorKind(res), ffi |-> <<"jsrCompileCode", res>>, sink |-> "untouched"]
    ELSE IF written
    THEN [out |-> "ok", ffi |-> <<"jsrCompileCode", "jsrBufferFree", res>>, sink |-> "written"]
    ELSE [out |-> "IO", ffi |-> <<"jsrCompileCode", res>>, sink |-> "failed"]
\* VM::compile after its two conversions: a failure code is returned at once;
\* otherwise write_all is given the buffer's bytes, jsrBufferFree is called
\* whatever the write answered, and the write's answer is returned.
compile_runs(res, written) ==
    IF ErrorKind(res) # "ok"
    THEN [out |-> ErrorKind(res), ffi |-> <<"jsrCompileCode", res>>, sink |-> "untouched"]
    ELSE [out |-> IF written THEN "ok" ELSE "IO",
          ffi |-> <<"jsrCompileCode", "jsrBufferFree", res>>,
          sink |-> IF written THEN "written" ELSE "failed"]

CompileCodes == {"Success", "SyntaxErr", "CompileErr"}
compile(h, res, written) ==
    /\ Usable(h, "compile")
    /\ res \in CompileCodes
    /\ last' = Did("compile", h, compile_runs(res, written).out, compile_runs(res, written).ffi)
    /\ UNCHANGED <<rt, tramp, log, handles, stack, cap, frames, views, aborted, heap>>

\* JStarImportResult::default(): every pointer null, no length, no finalizer.
DefaultResult ==
    [code |-> NullPtr, code_len |-> 0, path |-> NullPtr, reg |-> NullPtr,
     finalize |-> FALSE, user_data |-> NullPtr]

\* eval and call hand control to the foreign runtime until it returns.
\* res is the result code the run is heading for (Success while it is still
\* running) and heard is what crossed the boundary during the run: a native's
\* report of failure and the notifications given to the error callback.
Frame(kind, base, h, by) ==
    [kind |-> kind, base |-> base, h |-> h, by |-> by, res |-> "Success", heard |-> <<>>,
     imp |-> DefaultResult]

eval(h) ==
    /\ Usable(h, "eval")
    /\ Len(frames) < MaxDepth
    /\ frames' = Append(frames, Frame("eval", Len(stack), 0, h))
    /\ last' = Did("eval", h, "running", <<"jsrEval">>)
    /\ UNCHANGED <<rt, tramp, log, handles, stack, cap, views, aborted, heap>>

eval_in_module(h) ==
    /\ Usable(h, "eval_in_module")
    /\ Len(frames) < MaxDepth
    /\ frames' = Append(frames, Frame("eval_in_module", Len(stack), 0, h))
    /\ last' = Did("eval_in_module", h, "running", <<"jsrEvalModule">>)
    /\ UNCHANGED <<rt, tramp, log, handles, stack, cap, views, aborted, heap>>

call(h, argc) ==
    /\ Usable(h, "call")
    /\ IF ~call_check(argc)
       THEN /\ aborted' = "panic"
            /\ last' = Did("call", h, "abort", <<"jsrValidateSlot">>)
            /\ UNCHANGED frames
       ELSE /\ Len(frames) < MaxDepth
            /\ frames' = Append(frames, Frame("call", Len(stack) - argc - 1, 0, h))
            /\ last' = Did("call", h, "running", <<"jsrValidateSlot", "jsrCall">>)
            /\ UNCHANGED aborted
    /\ UNCHANGED <<rt, tramp, log, handles, stack, cap, views, heap>>

----------------------------------------------------------------------------
\* The foreign runtime's steps while an eval or a call is running

ForeignTurn == aborted = "no" /\ frames # <<>> /\ ~HostTurn
TopFrame == frames[Len(frames)]

\* VM::from_ptr: a NonOwned wrapper in the Init phase around the raw pointer.
from_ptr == Handle("Init", NonOwned)

\* Slots the foreign runtime guarantees to a native function when it calls it.
MIN_NATIVE_STACK_SZ == 20
Max(a, b) == IF a < b THEN b ELSE a

\* The running code calls a native function made by native!: the callee and
\* its arguments are the native's frame; the function body then runs on a
\* wrapper made by from_ptr.
NativeArgs == {<<NativeV>>, <<NativeV, Num(Zero)>>, <<NativeV, Str(<<>>)>>}
NativeEnter(args) ==
    /\ ForeignTurn /\ TopFrame.res = "Success" /\ TopFrame.imp = DefaultResult
    /\ Len(frames) < MaxDepth
    /\ Len(stack) + Len(args) <= MaxLen
    /\ stack' = stack \o args
    /\ cap' = Max(cap, Len(stack) + Len(args) + MIN_NATIVE_STACK_SZ)
    /\ handles' = [handles EXCEPT ![FreshId] = from_ptr]
    /\ frames' = Append(frames, Frame("native", Len(stack), FreshId, 0))
    /\ last' = Did("native", FreshId, "running", <<>>)
    /\ UNCHANGED <<rt, tramp, log, views, aborted, heap>>

\* The frame under the top one takes the failure of what it called.
Fails(fs, event) ==
    [fs EXCEPT ![Len(fs)].res = "RuntimeErr", ![Len(fs)].heard = @ \o event]
Caller == SubSeq(frames, 1, Len(frames) - 1)

\* native! with every body reported as a success.
native_reports_true(body) == "true"
\* native!: the match on the body's result, Err(_) => false, Ok(()) => true.
native_reports(body) == IF body = "err" THEN "false" ELSE "true"

\* A callback's wrapper that is forgotten instead of dropped.
end_of_scope_forgets(hs, h) == hs
\* The `let mut vm` of native! and of import_trampoline goes out of scope when
\* the callback's body is over: the wrapper is dropped with the call.
end_of_scope(hs, h) == [hs EXCEPT ![h] = NoHandle]

\* A body that uses ? on a checked getter ends with that getter's Err.
GetterFailed(h) == last.h = h /\ last.op \in {"check_number", "check_string"} /\ last.out = "err"

\* The native's body returns Ok(()) or Err; the wrapper is dropped and the
\* macro reports true or false.  The foreign runtime replaces the frame by
\* the value on top, and on a reported failure that value is raised in the
\* run that called the native.
NativeReturn(ok) ==
    /\ aborted = "no" /\ frames # <<>> /\ TopFrame.kind = "native"
    /\ ViewsOn(TopFrame.h) = {}
    /\ Height >= 1
    /\ LET calls == DropCalls(OwnershipOf(TopFrame.h))
           body == IF ok THEN "ok" ELSE "err"
           reported == native_reports(body)
       IN /\ handles' = end_of_scope(handles, TopFrame.h)
          /\ rt' = RtAfter(rt, calls)
          /\ tramp' = TrampAfter(tramp, calls)
          /\ log' = log \o calls
          /\ last' = Did("native", TopFrame.h, body, calls \o <<reported>>)
          /\ frames' = IF reported = "false"
                        THEN Fails(Caller, <<"native", reported, stack[Len(stack)].t>>)
                        ELSE Caller
    /\ stack' = Append(SubSeq(stack, 1, Base), stack[Len(stack)])
    /\ UNCHANGED <<cap, views, aborted, heap>>

\* A CString is its bytes followed by the terminator; turning it into a
\* Vec<u8> gives the bytes without the terminator.
CString(b) == b \o <<0>>
CStringInto(c) == SubSeq(c, 1, Len(c) - 1)

\* The answers of an import callback: None, or Some(Module) with source
\* text or with bytecode.
NoModule == [kind |-> "None", code |-> <<>>, path |-> <<>>, reg |-> NullPtr]
ModuleSource(src, path) ==
    [kind |-> "Source", code |-> CString(src), path |-> CString(path), reg |-> NullPtr]
ModuleBinary(code, path) ==
    [kind |-> "Binary", code |-> code, path |-> CString(path), reg |-> NullPtr]

\* Addresses Box::new may hand out for ImportData; a released address may be
\* handed out again.
BufAddrs == (BoxAddr + 1)..(BoxAddr + MaxDepth)
Allocated(a) == \E b \in heap : b.addr = a
At(a) == CHOOSE b \in heap : b.addr = a
FreshBuf == CHOOSE a \in BufAddrs : ~Allocated(a) /\ \A b \in BufAddrs : ~Allocated(b) => a <= b

\* import_trampoline with Source's text handed over with its terminator.
ImportCodeRaw(module) == module.code
\* The (code, path, reg) match of import_trampoline: src.into() for Source,
\* code for Binary.
ImportCode(module) ==
    IF module.kind = "Source" THEN CStringInto(module.code) ELSE module.code

\* ImportData(code, path), boxed at addr.
ImportData(module, addr) ==
    [addr |-> addr, code |-> ImportCode(module), path |-> module.path]

\* A result record that drops the module's registration table.
ImportResult_without_reg(module, addr) ==
    [code |-> addr, code_len |-> Len(ImportCode(module)), path |-> addr,
     reg |-> NullPtr, finalize |-> TRUE, user_data |-> addr]
\* The result record import_trampoline builds over the boxed ImportData.
ImportResult(module, addr) ==
    [code |-> addr, code_len |-> Len(ImportCode(module)), path |-> addr,
     reg |-> module.reg, finalize |-> TRUE, user_data |-> addr]

\* import_trampoline that boxes ImportData even when there is no module.
import_trampoline_boxing(callback, module, addr) ==
    IF callback /\ module # NoModule
    THEN [result |-> ImportResult(module, addr), boxed |-> {ImportData(module, addr)}]
    ELSE [result |-> DefaultResult, boxed |-> {ImportData(NoModule, addr)}]
\* import_trampoline: the default result when no callback is stored or the
\* callback answers None, and otherwise the result record over a new box.
import_trampoline(callback, module, addr) ==
    IF callback /\ module # NoModule
    THEN [result |-> ImportResult(module, addr), boxed |-> {ImportData(module, addr)}]
    ELSE [result |-> DefaultResult, boxed |-> {}]

\* The importing run after the trampoline returned: a result with no code
\* is a failed import, raised in the run; any other result is held until the
\* module is loaded.
\* A failed import raises in the importing run; a run started by call keeps
\* the raised exception in its top slot (the slot jsrCall leaves the result in).
ImportRaised(st, f, result) ==
    IF result.code = NullPtr /\ f.kind = "call" /\ st # <<>>
    THEN [st EXCEPT ![Len(st)] = ExcV] ELSE st

Imported(fs, result) ==
    IF result.code = NullPtr THEN Fails(fs, <<"import", "default">>)
    ELSE [fs EXCEPT ![Len(fs)].imp = result]

\* finalize_import that leaves the box alone.
finalize_import_forgets(mem, user_data) == mem
\* finalize_import: Box::from_raw(user_data), dropped at once.
finalize_import(mem, user_data) == {b \in mem : b.addr # user_data}

\* import_trampoline: with no import callback stored it answers the default
\* result at once, which the foreign runtime turns into a failed import;
\* otherwise the callback runs on a wrapper made by from_ptr.
ImportEnter ==
    /\ ForeignTurn /\ TopFrame.res = "Success" /\ TopFrame.imp = DefaultResult
    /\ IF tramp.status # "alloc"
       THEN /\ aborted' = "crash"
            /\ last' = Did("import_trampoline", 0, "crash", <<"jsrGetCustomData">>)
            /\ UNCHANGED <<handles, frames, heap, stack>>
       ELSE IF ~tramp.import_callback
       THEN /\ last' = Did("import_trampoline", 0, "default", <<"jsrGetCustomData">>)
            /\ frames' = Imported(frames, import_trampoline(FALSE, NoModule, FreshBuf).result)
            /\ heap' = heap \cup import_trampoline(FALSE, NoModule, FreshBuf).boxed
            /\ stack' = ImportRaised(stack, TopFrame,
                                     import_trampoline(FALSE, NoModule, FreshBuf).result)
            /\ UNCHANGED <<handles, aborted>>
       ELSE /\ Len(frames) < MaxDepth
            /\ handles' = [handles EXCEPT ![FreshId] = from_ptr]
            /\ frames' = Append(frames, Frame("import", Len(stack), FreshId, 0))
            /\ last' = Did("import_trampoline", FreshId, "running", <<"jsrGetCustomData">>)
            /\ UNCHANGED <<aborted, heap, stack>>
    /\ UNCHANGED <<rt, tramp, log, cap, views>>

\* The import callback returns None or Some(module); the wrapper is dropped
\* and the foreign runtime discards what the callback left on the stack.
\* For None the default result makes the import fail in the importing run;
\* for a module the run holds the result record over a new ImportData box.
ImportReturn(module) ==
    /\ aborted = "no" /\ frames # <<>> /\ TopFrame.kind = "import"
    /\ ViewsOn(TopFrame.h) = {}
    /\ LET calls == DropCalls(OwnershipOf(TopFrame.h))
       IN /\ handles' = end_of_scope(handles, TopFrame.h)
          /\ rt' = RtAfter(rt, calls)
          /\ tramp' = TrampAfter(tramp, calls)
          /\ log' = log \o calls
          /\ last' = Did("import_trampoline", TopFrame.h,
                         IF module = NoModule THEN "default" ELSE "module", calls)
    /\ LET answer == import_trampoline(TRUE, module, FreshBuf)
       IN /\ heap' = heap \cup answer.boxed
          /\ frames' = Imported(Caller, answer.result)
          /\ stack' = ImportRaised(SubSeq(stack, 1, Base), Caller[Len(Caller)],
                                   answer.result)
    /\ UNCHANGED <<cap, views, aborted>>

\* The foreign runtime reads the code and the path through the result
\* record, loads the module, and calls the record's finalizer once.
ImportLoad ==
    /\ ForeignTurn /\ TopFrame.imp # DefaultResult
    /\ IF ~Allocated(TopFrame.imp.code) \/ ~Allocated(TopFrame.imp.path)
          \/ ~Allocated(TopFrame.imp.user_data)
       THEN /\ aborted' = "crash"
            /\ last' = Did("finalize_import", 0, "crash", <<>>)
            /\ UNCHANGED <<frames, heap>>
       ELSE /\ heap' = IF TopFrame.imp.finalize
                       THEN finalize_import(heap, TopFrame.imp.user_data) ELSE heap
            /\ frames' = [frames EXCEPT ![Len(frames)].imp = DefaultResult,
                                        ![Len(frames)].heard =
                                            IF "module" \in Range(@) THEN @
                                            ELSE @ \o <<"import", "module">>]
            /\ last' = Did("finalize_import", 0, "ok", <<"drop_box">>)
            /\ UNCHANGED aborted
    /\ UNCHANGED <<rt, tramp, log, handles, stack, cap, views>>

\* The running code fails on its own: an eval with any error code, a call
\* with an exception, which takes the top of the stack.
Errors == JStarResult \ {"Success"}
Raise(res) ==
    /\ ForeignTurn /\ TopFrame.res = "Success" /\ TopFrame.imp = DefaultResult
    /\ res \in Errors
    /\ frames' = [frames EXCEPT ![Len(frames)].res = res]
    /\ IF TopFrame.kind # "call"
       THEN UNCHANGED stack
       ELSE /\ res = "RuntimeErr"
            /\ stack' = [stack EXCEPT ![Len(stack)] = ExcV]
    /\ last' = Did("raise", 0, ErrorKind(res), <<>>)
    /\ UNCHANGED <<rt, tramp, log, handles, cap, views, aborted, heap>>

\* A line option that takes line 0 for a line.
LineOption_from_zero(line) == IF line >= 0 THEN <<line>> ELSE <<>>
\* error_trampoline: `if line > 0 { Some(line) } else { None }`, an Option
\* written as a sequence of at most one element.
LineOption(line) == IF line > 0 THEN <<line>> ELSE <<>>

\* error_trampoline that forwards nothing.
error_trampoline_mute(callback, res, file, line) == <<>>
\* error_trampoline: forwards to the stored error callback, if there is one,
\* the error kind, the path and the line, absent unless positive.
error_trampoline(callback, res, file, line) ==
    IF callback
    THEN <<"error_callback", ErrorKind(res), file,
           IF LineOption(line) # <<>> THEN "Some" ELSE "None">>
    ELSE <<>>

\* A trampoline whose callback could clear the failure it is told about.
AfterReport_suppressing(f, events) ==
    [f EXCEPT !.heard = @ \o <<"error_trampoline">> \o events,
              !.res = IF events = <<>> THEN @ ELSE "Success"]
\* The run after error_trampoline returned: the trampoline returns nothing
\* and the callback is given no handle, so only what was heard has changed.
AfterReport(f, events) == [f EXCEPT !.heard = @ \o <<"error_trampoline">> \o events]

\* The foreign runtime reports the failure of a run, once, before the run
\* returns; a Runtime failure carries no line.
Reported(f) == "error_trampoline" \in Range(f.heard)
\* The path given to eval, which the foreign runtime names in its reports.
ScriptPath == "<string>"
Lines == {-1, 1}
ErrorReport(line) ==
    /\ ForeignTurn /\ TopFrame.res # "Success" /\ ~Reported(TopFrame)
    /\ TopFrame.res = "RuntimeErr" => line <= 0
    /\ IF tramp.status # "alloc"
       THEN /\ aborted' = "crash"
            /\ last' = Did("error_trampoline", 0, "crash", <<"jsrGetCustomData">>)
            /\ UNCHANGED frames
       ELSE /\ last' = Did("error_trampoline", 0,
                           IF ~tramp.error_callback THEN "skipped"
                           ELSE IF line > 0 THEN "some" ELSE "none", <<"jsrGetCustomData">>)
            /\ frames' = [frames EXCEPT ![Len(frames)] =
                             AfterReport(@, error_trampoline(tramp.error_callback,
                                                             TopFrame.res, ScriptPath, line))]
            /\ UNCHANGED aborted
    /\ UNCHANGED <<rt, tramp, log, handles, stack, cap, views, heap>>

\* The codes an eval reports before it returns.
MustReport == {"SyntaxErr", "CompileErr", "RuntimeErr"}

\* The foreign run ends with the code it was heading for.  An eval leaves
\* the stack as it found it; a call replaces the callee and its arguments by
\* the result or by the value that was raised.
CallResults == {Num(Zero), Str(<<>>)}
ForeignReturn(v) ==
    /\ ForeignTurn /\ TopFrame.imp = DefaultResult
    /\ IF TopFrame.kind = "call"
       THEN /\ TopFrame.res # "Success" => v = Num(Zero)
            /\ stack' = Append(SubSeq(stack, 1, TopFrame.base),
                               IF TopFrame.res = "Success" THEN v ELSE stack[Len(stack)])
       ELSE /\ TopFrame.res \in MustReport => Reported(TopFrame)
            /\ stack' = SubSeq(stack, 1, TopFrame.base)
            /\ v = Num(Zero)
    /\ frames' = SubSeq(frames, 1, Len(frames) - 1)
    /\ last' = Did(TopFrame.kind, TopFrame.by, ErrorKind(TopFrame.res),
                   TopFrame.heard \o <<TopFrame.res>>)
    /\ UNCHANGED <<rt, tramp, log, handles, cap, views, aborted, heap>>

----------------------------------------------------------------------------
Bools == BOOLEAN
PushedNumbers == {Zero}
PushedStrings == {<<>>}
PopCounts == (-1)..(MaxLen + 1)
ArgCounts == 0..MaxLen
ModuleText == <<65>>
ImportAnswers == {NoModule, ModuleSource(ModuleText, <<60>>)}

Next ==
    \/ \E conf \in Confs, null \in Bools : New(conf, null)
    \/ \E h \in HandleIds : init_runtime(h)
    \/ \E h \in HandleIds : Drop(h)
    \/ \E h \in HandleIds : pop(h)
    \/ \E h \in HandleIds, n \in PopCounts : pop_n(h, n)
    \/ \E h \in HandleIds, d \in PushedNumbers : push_number(h, d)
    \/ \E h \in HandleIds, b \in PushedStrings : push_string(h, b)
    \/ \E h \in HandleIds, found \in Bools : push_native(h, found)
    \/ \E h \in HandleIds, slot \in Slots : is_number(h, slot)
    \/ \E h \in HandleIds, slot \in Slots : get_number(h, slot)
    \/ \E h \in HandleIds, slot \in Slots : check_number(h, slot)
    \/ \E h \in HandleIds, slot \in Slots : is_string(h, slot)
    \/ \E h \in HandleIds, slot \in Slots, keep \in Bools : get_string(h, slot, keep)
    \/ \E h \in HandleIds, slot \in Slots, keep \in Bools : check_string(h, slot, keep)
    \/ \E h \in HandleIds, found \in Bools, v \in CallResults : get_global(h, found, v)
    \/ \E h \in HandleIds, found \in Bools : set_global(h, found)
    \/ \E h \in HandleIds, keep \in Bools : get_top(h, keep)
    \/ \E h \in HandleIds, slot \in Slots, keep \in Bools : peek_top(h, slot, keep)
    \/ \E v \in views : DropView(v)
    \/ \E h \in HandleIds, needed \in {1} : ensure_stack(h, needed)
    \/ \E h \in HandleIds, res \in JStarResult, written \in Bools : compile(h, res, written)
    \/ \E h \in HandleIds : eval(h)
    \/ \E h \in HandleIds : eval_in_module(h)
    \/ \E h \in HandleIds, argc \in ArgCounts : call(h, argc)
    \/ \E args \in NativeArgs : NativeEnter(args)
    \/ \E ok \in Bools : NativeReturn(ok)
    \/ ImportEnter
    \/ \E module \in ImportAnswers : ImportReturn(module)
    \/ ImportLoad
    \/ \E res \in Errors : Raise(res)
    \/ \E line \in Lines : ErrorReport(line)
    \/ \E v \in CallResults : ForeignReturn(v)

Spec == Init /\ [][Next]_vars

----------------------------------------------------------------------------
\* Properties

Count(x, s) == Cardinality({i \in 1..Len(s) : s[i] = x})
OwnedHandles == {h \in HandleIds : handles[h].own = "Owned"}
\* The methods of impl VM<Init>.
InitOnlyOps == {"eval", "eval_in_module", "call", "pop", "pop_n", "push_number",
                "push_string", "push_native", "register_native", "is_number", "get_number",
                "check_number", "is_string", "get_string", "check_string", "get_global",
                "set_global", "get_top", "peek_top", "ensure_stack"}
Callbacks == {"native", "import_trampoline", "error_trampoline"}

\* C1: the runtime VM::new created is freed at most once, and only by the drop
\* of an Owned wrapper: while it is alive exactly one Owned wrapper exists, once
\* it is freed none does, init_runtime's consumed wrapper frees nothing, and
\* the NonOwned wrappers of the callbacks free nothing.
C1_FreedOnceByOwner ==
    /\ Count("jsrFreeVM", log) <= 1
    /\ rt.status \in {"new", "init"} => Cardinality(OwnedHandles) = 1
    /\ rt.status = "freed" <=> Count("jsrFreeVM", log) = 1
    /\ rt.status \in {"none", "freed"} => OwnedHandles = {}
    /\ "jsrFreeVM" \in Range(last.ffi) => last.op = "drop"
    /\ last.op = "init_runtime" => ~Live(last.h) /\ "jsrFreeVM" \notin Range(last.ffi)
    /\ \A h \in HandleIds : handles[h].own = "NonOwned" => DropCalls(OwnershipOf(h)) = <<>>

\* C1 witness: an initialised runtime was freed by the drop of its wrapper.
C1_Witness ==
    /\ last.op = "drop" /\ "jsrFreeVM" \in Range(last.ffi)
    /\ "jsrInitRuntime" \in Range(log)

\* C2: while the runtime is alive its custom data is the address of the
\* allocated Trampolines, which never changes; the box is released only after
\* jsrFreeVM, and no trampoline ever reads a released box.
C2_TrampolinesOutliveRuntime ==
    /\ rt.status \in {"new", "init"} => tramp.status = "alloc" /\ tramp.addr = rt.custom_data
    /\ tramp.status = "released" => rt.status = "freed" /\ tramp.addr = rt.custom_data
    /\ \A i \in 1..Len(log) : log[i] = "drop_box" => \E j \in 1..(i - 1) : log[j] = "jsrFreeVM"
    /\ last.op \in Callbacks => last.out # "crash"

\* C2 witness: the box of an initialised runtime has been released.
C2_Witness ==
    /\ tramp.status = "released"
    /\ log = <<"jsrNewVM", "jsrInitRuntime", "jsrFreeVM", "drop_box">>

\* C3: jsrInitRuntime is called at most once; nothing of the Init phase (an
\* operation, a stacked value, a running eval or call) exists before it; once
\* it was called no Uninit wrapper is left, and the wrapper it consumed is gone.
C3_InitOnce ==
    /\ Count("jsrInitRuntime", log) <= 1
    /\ rt.status = "init" => "jsrInitRuntime" \in Range(log)
    /\ (last.op \in InitOnlyOps \cup Callbacks \/ stack # <<>> \/ frames # <<>>)
          => "jsrInitRuntime" \in Range(log)
    /\ "jsrInitRuntime" \in Range(log) => \A h \in HandleIds : handles[h].state # "Uninit"
    /\ last.op = "init_runtime" =>
          /\ ~Live(last.h)
          /\ \E g \in HandleIds : handles[g] = Handle("Init", Owned(rt.custom_data))

\* C3 witness: an eval returned on the wrapper init_runtime produced.
C3_Witness ==
    /\ last.op = "eval" /\ last.out = "ok"
    /\ handles[last.h] = Handle("Init", Owned(BoxAddr))

\* C4: an Uninit wrapper offers compile, init_runtime and drop and nothing of
\* impl VM<Init>; an Init wrapper offers compile as well; whatever Init-only
\* operation ran last ran on an Init wrapper.
C4_TypeState ==
    /\ \A h \in HandleIds :
          handles[h].state = "Uninit" =>
             /\ \A op \in InitOnlyOps : handles[h].state \notin Phases(op)
             /\ \A op \in {"compile", "compile_in_memory", "init_runtime", "drop"} :
                   handles[h].state \in Phases(op)
    /\ \A h \in HandleIds :
          handles[h].state = "Init" =>
             /\ \A op \in InitOnlyOps \cup {"compile", "compile_in_memory", "drop"} :
                   handles[h].state \in Phases(op)
             /\ handles[h].state \notin Phases("init_runtime")
    /\ last.op \in InitOnlyOps => handles[last.h].state = "Init"

\* C4 witness: compile ran on an Uninit wrapper.
C4_Witness == last.op = "compile" /\ last.out = "ok" /\ handles[last.h].state = "Uninit"

\* The outcomes, in the current state, of the wrappers that take &self and
\* touch the stack.
SharedRuns ==
    UNION ({push_number_runs(d) : d \in PushedNumbers}
           \cup {push_string_runs(b) : b \in PushedStrings}
           \cup {push_native_runs(f) : f \in Bools}
           \cup {get_global_runs(f, v) : f \in Bools, v \in CallResults}
           \cup {set_global_runs(f) : f \in Bools}
           \cup {check_number_runs(slot) : slot \in Slots}
           \cup {check_string_runs(slot) : slot \in Slots}
           \cup {get_number_runs(slot) : slot \in Slots}
           \cup {get_string_runs(slot) : slot \in Slots}
           \cup {get_top_runs} \cup {peek_top_runs(slot) : slot \in Slots})
IsPrefix(s, t) == Len(s) <= Len(t) /\ SubSeq(t, 1, Len(s)) = s
StackMutating == {"push_number", "push_string", "push_native", "get_global", "eval", "pop",
                  "pop_n", "call"}

Populated(slot) == IF slot < 0 THEN (0 - slot) <= Height ELSE slot < Height
IndexRuns(slot) ==
    is_number_runs(slot) \cup get_number_runs(slot) \cup check_number_runs(slot)
    \cup is_string_runs(slot) \cup get_string_runs(slot) \cup check_string_runs(slot)
Aborts(runs) == \A r \in runs : r.out = "abort" /\ r.stack = stack
PeekOffsets == 1..(2 * MaxLen + 1)

\* C6, as stated: every index-based operation given an index that denotes no
\* value of the active frame aborts, having made no foreign call but the
\* validation; peek_top(k) denotes the value k below the top.
C6_InvalidIndexAborts ==
    (\E h \in HandleIds : Usable(h, "peek_top")) =>
       /\ \A slot \in Slots :
             ~Populated(slot) =>
                \A r \in IndexRuns(slot) : r.out = "abort" /\ r.ffi = <<"jsrValidateSlot">>
       /\ ~Populated(-1) => Aborts(pop_runs \cup set_global_runs(TRUE) \cup set_global_runs(FALSE))
       /\ \A n \in 1..(MaxLen + 1) : ~Populated(0 - n) => Aborts(pop_n_runs(n))
       /\ \A argc \in ArgCounts : ~Populated(0 - (argc + 1)) => ~call_check(argc)
       /\ \A k \in PeekOffsets : ~Populated(0 - (k + 1)) => Aborts(peek_top_runs(k))

\* C7, as stated: with no free slot every push-style operation aborts and
\* pushes nothing.
C7_PushChecksRoom ==
    ((\E h \in HandleIds : Usable(h, "push_string")) /\ ~validate_stack) =>
       /\ \A d \in PushedNumbers : Aborts(push_number_runs(d))
       /\ \A b \in PushedStrings : Aborts(push_string_runs(b))
       /\ \A f \in Bools : Aborts(push_native_runs(f))
       /\ \A f \in Bools, v \in CallResults : Aborts(get_global_runs(f, v))

\* C8: pop with no value in the active frame, pop_n(n) with n above the
\* number of values in the active frame and pop_n(n) with n <= 0 abort and
\* leave the stack as it is, whatever frame is active; an abort stops the
\* process.
C8_PopUnderflowAborts ==
    /\ (\E h \in HandleIds : Usable(h, "pop")) =>
          /\ Height = 0 => Aborts(pop_runs)
          /\ \A n \in PopCounts : (n > Height \/ n <= 0) => Aborts(pop_n_runs(n))
    /\ (last.op \in {"pop", "pop_n"} /\ last.out = "abort") => aborted = "panic"
    /\ (last.op \in {"pop", "pop_n"} /\ last.out # "abort") => aborted = "no"

\* C8 witness: inside a native's frame that sits above the host's values,
\* pop_n aborted on a positive count.
C8_Witness ==
    /\ last.op = "pop_n" /\ last.out = "abort" /\ last.ffi = <<"jsrValidateSlot">>
    /\ frames # <<>> /\ TopFrame.kind = "native" /\ Base > 0

\* Offset in `stack` at which the frame of the wrapper h starts.
BaseOf(h) ==
    IF \E i \in 1..Len(frames) : frames[i].h = h
    THEN frames[CHOOSE i \in 1..Len(frames) : frames[i].h = h].base
    ELSE 0
AllRuns == SharedRuns \cup pop_runs \cup UNION {pop_n_runs(n) : n \in PopCounts}

\* C9: while a native or an import callback runs, no outcome of any wrapper
\* removes or changes a value below the callback's frame; a live String view
\* always points at a string that is still on the stack, and a live StackRef
\* with an index from the base stays inside the stack.
C9_OuterFrameKept ==
    /\ (frames # <<>> /\ HostTurn /\ aborted = "no") =>
          \A r \in AllRuns : IsPrefix(SubSeq(stack, 1, Base), r.stack)
    /\ \A v \in views :
          /\ v.kind = "String" => v.index \in 1..Len(stack) /\ stack[v.index].t = "String"
          /\ (v.kind = "StackRef" /\ v.index >= 0) => BaseOf(v.h) + v.index < Len(stack)

\* C9 witness: a pop aborted in an import callback's empty frame while the
\* host holds a String view of a value it pushed before the eval.
C9_Witness ==
    /\ last.op = "pop" /\ last.out = "abort"
    /\ frames # <<>> /\ TopFrame.kind = "import" /\ Base > 0
    /\ \E v \in views : v.kind = "String" /\ v.index <= Base

----------------------------------------------------------------------------
\* Number conversions (convert.rs: to_jstar_number_impl, from_jstar_number_impl)

\* A host integer is a sign and a magnitude in binary (most significant bit
\* first, no leading zero); a host float is a double as above.
HostInt(neg, bits) == [neg |-> neg, bits |-> bits]
Zeros(n) == [i \in 1..n |-> 0]
Ones(n) == [i \in 1..n |-> 1]
Pow2(n) == <<1>> \o Zeros(n)
Inf(neg) == [k |-> "inf", neg |-> neg, mag |-> <<>>, exp |-> 0]
NaN == [k |-> "nan", neg |-> FALSE, mag |-> <<>>, exp |-> 0]

NumberTypes == {"f64", "f32", "u64", "u32", "u16", "u8", "i64", "i32", "i16", "i8"}
FloatTypes == {"f64", "f32"}
Signed(t) == t \in {"i64", "i32", "i16", "i8"}
Width(t) ==
    CASE t \in {"u64", "i64"} -> 64 [] t \in {"u32", "i32"} -> 32
      [] t \in {"u16", "i16"} -> 16 [] t \in {"u8", "i8"} -> 8
\* Significand bits, largest binary exponent and smallest bit weight of a float.
Precision(t) == IF t = "f32" THEN 24 ELSE 53
MaxExp(t) == IF t = "f32" THEN 128 ELSE 1024
MinWeight(t) == IF t = "f32" THEN -149 ELSE -1074

TrailingZeros(b) ==
    LET S == {k \in 0..Len(b) : \A i \in (Len(b) - k + 1)..Len(b) : b[i] = 0}
    IN CHOOSE k \in S : \A j \in S : j <= k
\* mag * 2^exp with the trailing zeros of mag moved into the exponent.
Norm(neg, bits, exp) ==
    IF \A i \in 1..Len(bits) : bits[i] = 0 THEN Fin(neg, <<>>, 0)
    ELSE LET z == TrailingZeros(bits)
         IN Fin(neg, SubSeq(bits, 1, Len(bits) - z), exp + z)
\* b + 1
Inc(b) ==
    IF \A i \in 1..Len(b) : b[i] = 1 THEN Pow2(Len(b))
    ELSE LET i == CHOOSE j \in 1..Len(b) : b[j] = 0 /\ \A m \in (j + 1)..Len(b) : b[m] = 1
         IN SubSeq(b, 1, i - 1) \o <<1>> \o Zeros(Len(b) - i)
\* b rounded to its p leading bits, ties to even: the kept magnitude and the
\* number of bits dropped.
RoundBits(b, p) ==
    IF Len(b) <= p THEN [mag |-> b, shift |-> 0]
    ELSE IF p < 0 THEN [mag |-> <<>>, shift |-> Len(b) - p]
    ELSE LET keep == SubSeq(b, 1, p)
             rest == SubSeq(b, p + 1, Len(b))
             sticky == \E i \in 2..Len(rest) : rest[i] = 1
             odd == p > 0 /\ keep[p] = 1
             up == rest[1] = 1 /\ (sticky \/ odd)
         IN [mag |-> IF up THEN (IF p = 0 THEN <<1>> ELSE Inc(keep)) ELSE keep,
             shift |-> Len(b) - p]

\* d as a float of type t: round to nearest, ties to even; out of range is an
\* infinity.
RoundFloat(t, d) ==
    IF d.k # "fin" \/ d.mag = <<>> THEN d
    ELSE LET e == Len(d.mag) + d.exp
             p == IF e - MinWeight(t) < Precision(t) THEN e - MinWeight(t) ELSE Precision(t)
             r == RoundBits(d.mag, p)
         IN IF Len(r.mag) + d.exp + r.shift > MaxExp(t) THEN Inf(d.neg)
            ELSE Norm(d.neg, r.mag, d.exp + r.shift)

\* `x as f64` for x of type t, rounded to single precision on the way.
AsF64Single(t, x) ==
    IF t \in FloatTypes THEN RoundFloat("f32", x)
    ELSE RoundFloat("f32", Norm(x.neg, x.bits, 0))
\* `x as f64` for x of type t.
AsF64(t, x) ==
    IF t \in FloatTypes THEN RoundFloat("f64", x)
    ELSE RoundFloat("f64", Norm(x.neg, x.bits, 0))

\* The integer part of a finite double, as a magnitude.
Trunc(d) ==
    IF d.exp >= 0 THEN d.mag \o Zeros(d.exp)
    ELSE SubSeq(d.mag, 1, Len(d.mag) + d.exp)
MaxInt(t) == HostInt(FALSE, Ones(IF Signed(t) THEN Width(t) - 1 ELSE Width(t)))
MinInt(t) == IF Signed(t) THEN HostInt(TRUE, Pow2(Width(t) - 1)) ELSE HostInt(FALSE, <<>>)
\* `d as t`: a float is rounded; an integer is truncated towards zero and
\* saturates at the ends of the type, NaN giving 0.
AsT(t, d) ==
    IF t \in FloatTypes THEN RoundFloat(t, d)
    ELSE IF d.k = "nan" THEN HostInt(FALSE, <<>>)
    ELSE IF d.k = "inf" THEN (IF d.neg THEN MinInt(t) ELSE MaxInt(t))
    ELSE LET m == Trunc(d)
         IN IF m = <<>> THEN HostInt(FALSE, <<>>)
            ELSE IF ~d.neg THEN (IF Len(m) > Len(MaxInt(t).bits) THEN MaxInt(t)
                                 ELSE HostInt(FALSE, m))
            ELSE IF ~Signed(t) THEN MinInt(t)
            ELSE IF Len(m) >= Width(t) THEN MinInt(t)
            ELSE HostInt(TRUE, m)

\* The host numbers tried for each type: zero, one, the ends of the type and
\* values around the limits of the double's significand.
HostNumbers(t) ==
    IF t = "f64"
    THEN {Zero, Fin(TRUE, <<>>, 0), Fin(FALSE, <<1, 1>>, -1), Fin(FALSE, Ones(53), 971),
          Fin(FALSE, <<1>>, -1074), Fin(TRUE, <<1>> \o Zeros(23) \o <<1>>, 0), Inf(FALSE),
          Inf(TRUE), NaN}
    ELSE IF t = "f32"
    THEN {Zero, Fin(TRUE, <<>>, 0), Fin(FALSE, <<1, 1>>, -1), Fin(FALSE, Ones(24), 104),
          Fin(FALSE, <<1>>, -149), Inf(FALSE), NaN}
    ELSE {HostInt(FALSE, <<>>), HostInt(FALSE, <<1>>), MaxInt(t), MinInt(t),
          HostInt(FALSE, Pow2(Width(t) - 2))}
         \cup (IF Signed(t) THEN {HostInt(TRUE, <<1>>)} ELSE {})
         \cup (IF Width(t) = 64
               THEN {HostInt(FALSE, Pow2(53)), HostInt(FALSE, <<1>> \o Zeros(52) \o <<1>>)}
                    \cup (IF Signed(t) THEN {HostInt(TRUE, <<1>> \o Zeros(52) \o <<1>>)}
                          ELSE {})
               ELSE {})

\* The state after VM::new and init_runtime, with nothing converted yet.
InitNum ==
    /\ rt = [status |-> "init", custom_data |-> BoxAddr]
    /\ tramp = [status |-> "alloc", addr |-> BoxAddr, error_callback |-> FALSE,
                import_callback |-> FALSE]
    /\ log = <<"jsrNewVM", "jsrInitRuntime">>
    /\ handles = [h \in HandleIds |-> IF h = 2 THEN Handle("Init", Owned(BoxAddr))
                                      ELSE NoHandle]
    /\ stack = <<>>
    /\ cap \in StartSizes
    /\ frames = <<>>
    /\ views = {}
    /\ aborted = "no"
    /\ last = [op |-> "none", h |-> 0, out |-> "ok", ffi |-> <<>>, t |-> "f64", x |-> Zero,
               pushed |-> FALSE, as |-> "f64", got |-> Zero]
    /\ heap = {}

Converted(op, h, r, t, x, pushed, as, got) ==
    /\ Len(r.stack) <= MaxLen
    /\ aborted' = (CASE r.out = "abort" -> "panic" [] r.out = "crash" -> "crash"
                     [] OTHER -> "no")
    /\ stack' = r.stack
    /\ last' = [op |-> op, h |-> h, out |-> r.out, ffi |-> r.ffi, t |-> t, x |-> x,
                pushed |-> pushed, as |-> as, got |-> got]
    /\ UNCHANGED <<rt, tramp, log, handles, cap, frames, views, heap>>

\* ToJStar for a number type: vm.push_number(*self as f64).
to_jstar(h, t, x) ==
    /\ Usable(h, "push_number")
    /\ \E r \in push_number_runs(AsF64(t, x)) :
          Converted("to_jstar", h, r, t, x, r.out = "ok", t, Zero)

\* Whether the slot read is the one the last to_jstar pushed.
ReadsPushed(slot) ==
    last.op = "to_jstar" /\ last.pushed /\ Populated(slot) /\ Pos(slot) = Len(stack)

\* FromJStar::from_jstar for a number type: vm.get_number(slot).map(|n| n as t).
from_jstar(h, t, slot) ==
    /\ Usable(h, "get_number")
    /\ \E r \in get_number_runs(slot) :
          Converted("from_jstar", h, r, IF ReadsPushed(slot) THEN last.t ELSE "f64",
                    IF ReadsPushed(slot) THEN last.x ELSE Zero, ReadsPushed(slot), t,
                    IF r.out = "some" THEN AsT(t, stack[Pos(slot)].n) ELSE Zero)

\* FromJStar::from_jstar_checked: vm.check_number(slot, name).map(|n| n as t).
from_jstar_checked(h, t, slot) ==
    /\ Usable(h, "check_number")
    /\ \E r \in check_number_runs(slot) :
          Converted("from_jstar_checked", h, r, IF ReadsPushed(slot) THEN last.t ELSE "f64",
                    IF ReadsPushed(slot) THEN last.x ELSE Zero, ReadsPushed(slot), t,
                    IF r.out = "ok" THEN AsT(t, stack[Pos(slot)].n) ELSE Zero)

\* ToJStar for &str and &[u8]: vm.push_string(self).
to_jstar_str(h, b) ==
    /\ Usable(h, "push_string")
    /\ \E r \in push_string_runs(b) :
          Converted("to_jstar_str", h, r, "f64", Zero, FALSE, "f64", Zero)

pop_converted(h) ==
    /\ Usable(h, "pop")
    /\ \E r \in pop_runs : Converted("pop", h, r, "f64", Zero, FALSE, "f64", Zero)

NextNum ==
    \/ \E h \in HandleIds, t \in NumberTypes : \E x \in HostNumbers(t) : to_jstar(h, t, x)
    \/ \E h \in HandleIds, t \in NumberTypes, slot \in Slots : from_jstar(h, t, slot)
    \/ \E h \in HandleIds, t \in NumberTypes, slot \in Slots : from_jstar_checked(h, t, slot)
    \/ \E h \in HandleIds, b \in PushedStrings : to_jstar_str(h, b)
    \/ \E h \in HandleIds : pop_converted(h)

SpecNum == InitNum /\ [][NextNum]_vars

\* A host number that a double holds exactly.
Exact(t, x) == t \in FloatTypes \/ Len(x.bits) - TrailingZeros(x.bits) <= 53

\* C10: a host number that a double holds exactly, pushed with to_jstar and
\* read back from the slot it was pushed to with from_jstar or
\* from_jstar_checked of the same type, comes back as the value pushed.
C10_NumberRoundTrip ==
    (/\ last.op \in {"from_jstar", "from_jstar_checked"}
     /\ last.pushed /\ last.as = last.t /\ Exact(last.t, last.x))
       => last.out \in {"some", "ok"} /\ last.got = last.x

\* C10 witness: 2^53 pushed as a u64 came back as 2^53.
C10_Witness ==
    /\ last.op = "from_jstar" /\ last.pushed /\ last.t = "u64" /\ last.as = "u64"
    /\ last.x = HostInt(FALSE, Pow2(53)) /\ last.got = last.x

----------------------------------------------------------------------------
\* Strings (vm.rs: push_string, get_string, check_string; string.rs: String)

\* The bytes tried: zero, an ASCII letter, and a byte no UTF-8 text contains.
Bytes == {0, 65, 255}
MaxBytes == 3
ByteSeqs == UNION {[1..n -> Bytes] : n \in 0..MaxBytes}

\* What the foreign runtime keeps of a String: its bytes, then a zero byte.
jsrGetString(v) == v.s \o <<0>>
jsrGetStringSz(v) == Len(v.s)
\* String::new(data, len) and String::as_bytes: slice::from_raw_parts(data, len).
StringNew(data, len) == [data |-> data, len |-> len]
as_bytes(str) == SubSeq(str.data, 1, str.len)
\* The String get_string / check_string hands back for the value v.
StringOf(v) == StringNew(jsrGetString(v), jsrGetStringSz(v))

\* ToJStar for &[u8]: vm.push_string(self), by a host that pushes only when
\* validate_stack says there is room.
to_jstar_bytes(h, b) ==
    /\ Usable(h, "push_string")
    /\ validate_stack
    /\ \E r \in push_string_runs(b) :
          Converted("to_jstar", h, r, "bytes", b, r.out = "ok", "bytes", <<>>)

\* FromJStar for String: vm.get_string(slot), read through as_bytes.
string_from_jstar(h, slot) ==
    /\ Usable(h, "get_string")
    /\ \E r \in get_string_runs(slot) :
          Converted("get_string", h, r, IF ReadsPushed(slot) THEN last.t ELSE "bytes",
                    IF ReadsPushed(slot) THEN last.x ELSE <<>>, ReadsPushed(slot), "bytes",
                    IF r.out = "some" THEN as_bytes(StringOf(stack[Pos(slot)])) ELSE <<>>)

\* vm.check_string(slot, name), read through as_bytes.
string_from_jstar_checked(h, slot) ==
    /\ Usable(h, "check_string")
    /\ \E r \in check_string_runs(slot) :
          Converted("check_string", h, r, IF ReadsPushed(slot) THEN last.t ELSE "bytes",
                    IF ReadsPushed(slot) THEN last.x ELSE <<>>, ReadsPushed(slot), "bytes",
                    IF r.out = "ok" THEN as_bytes(StringOf(stack[Pos(slot)])) ELSE <<>>)

number_pushed(h) ==
    /\ Usable(h, "push_number")
    /\ \E r \in push_number_runs(Zero) :
          Converted("push_number", h, r, "bytes", <<>>, FALSE, "bytes", <<>>)

string_popped(h) ==
    /\ Usable(h, "pop")
    /\ \E r \in pop_runs : Converted("pop", h, r, "bytes", <<>>, FALSE, "bytes", <<>>)

InitStr ==
    /\ InitNum!1 /\ InitNum!2 /\ InitNum!3 /\ InitNum!4 /\ InitNum!5 /\ InitNum!6
    /\ InitNum!7 /\ InitNum!8 /\ InitNum!9 /\ InitNum!11
    /\ last = [op |-> "none", h |-> 0, out |-> "ok", ffi |-> <<>>, t |-> "bytes", x |-> <<>>,
               pushed |-> FALSE, as |-> "bytes", got |-> <<>>]

NextStr ==
    \/ \E h \in HandleIds, b \in ByteSeqs : to_jstar_bytes(h, b)
    \/ \E h \in HandleIds, slot \in Slots : string_from_jstar(h, slot)
    \/ \E h \in HandleIds, slot \in Slots : string_from_jstar_checked(h, slot)
    \/ \E h \in HandleIds : number_pushed(h)
    \/ \E h \in HandleIds : string_popped(h)

SpecStr == InitStr /\ [][NextStr]_vars

\* C11: a byte sequence pushed with push_string and read back from the slot
\* it was pushed to with get_string comes back with the same length and the
\* same bytes, zero bytes and bytes that are not UTF-8 included.
C11_BytesRoundTrip ==
    (last.op = "get_string" /\ last.pushed) =>
       /\ last.out = "some"
       /\ Len(last.got) = Len(last.x)
       /\ last.got = last.x

\* C11 witness: a zero byte between two other bytes, one of them not UTF-8,
\* came back whole.
C11_Witness ==
    /\ last.op = "get_string" /\ last.pushed /\ last.out = "some"
    /\ last.x = <<65, 0, 255>> /\ last.got = <<65, 0, 255>>

----------------------------------------------------------------------------
\* StackRef::get::<T>(): T::from_jstar(self.vm, self.index), for a number
\* type or for String.
StackRef_get_runs(v, T) ==
    IF T = "String" THEN get_string_runs(v.index) ELSE get_number_runs(v.index)
SoftRuns(slot) == get_number_runs(slot) \cup get_string_runs(slot)

\* C12: a soft typed getter never changes the stack, whatever it returns; on
\* a valid slot it has one outcome only, so asking again gives the same
\* answer: absent when the slot holds another type, present when it holds the
\* type asked for.  StackRef::get does the same at the index it stores.
C12_SoftGetterPure ==
    /\ (\E h \in HandleIds : Usable(h, "get_number")) =>
       /\ \A slot \in Slots :
             /\ \A r \in SoftRuns(slot) : r.stack = stack
             /\ Populated(slot) =>
                   /\ get_number_runs(slot)
                         = {R(IF stack[Pos(slot)].t = "Number" THEN "some" ELSE "none",
                              r.ffi, stack) : r \in get_number_runs(slot)}
                   /\ get_string_runs(slot)
                         = {R(IF stack[Pos(slot)].t = "String" THEN "some" ELSE "none",
                              r.ffi, stack) : r \in get_string_runs(slot)}
                   /\ Cardinality(get_number_runs(slot)) = 1
                   /\ Cardinality(get_string_runs(slot)) = 1
       /\ \A v \in views :
             (v.kind = "StackRef" /\ Usable(v.h, "get_number")) =>
                \A T \in {"Number", "String"} :
                   /\ \A r \in StackRef_get_runs(v, T) : r.stack = stack
                   /\ Populated(v.index) =>
                         \A r \in StackRef_get_runs(v, T) :
                            r.out = IF stack[Pos(v.index)].t = T THEN "some" ELSE "none"
    /\ (last.op \in {"get_number", "get_string"} /\ last.out = "none") => aborted = "no"

\* C12 witness: get_number answered absent while a StackRef of the wrapper
\* points at a String in the frame.
C12_Witness ==
    /\ last.op = "get_number" /\ last.out = "none"
    /\ \E v \in views : /\ v.kind = "StackRef" /\ v.h = last.h /\ Populated(v.index)
                        /\ stack[Pos(v.index)].t = "String"

\* What a checked getter may do at a valid slot holding a value of type t
\* when T is asked for: return the value and leave the stack alone, or return
\* Err(Runtime) with one exception pushed; the process may die instead only
\* when the exception finds no room.
CheckedAsClaimed(r, matches) ==
    \/ matches /\ r.out = "ok" /\ r.stack = stack
    \/ ~matches /\ r.out = "err" /\ r.stack = Append(stack, ExcV)
    \/ ~matches /\ r.out = "crash" /\ r.stack = stack /\ ~jsrValidateStack

\* C13: on a valid slot check_number and check_string return the value with
\* the stack unchanged when the type matches, and otherwise return
\* Err(Runtime) with exactly one new value, an exception, on top.
C13_CheckedGetter ==
    /\ (\E h \in HandleIds : Usable(h, "check_number")) =>
          \A slot \in Slots :
             Populated(slot) =>
                /\ \A r \in check_number_runs(slot) :
                      CheckedAsClaimed(r, stack[Pos(slot)].t = "Number")
                /\ \A r \in check_string_runs(slot) :
                      CheckedAsClaimed(r, stack[Pos(slot)].t = "String")
    /\ (last.op \in {"check_number", "check_string"} /\ last.out = "err") =>
          stack # <<>> /\ stack[Len(stack)] = ExcV

\* C13 witness: check_string failed on a Number and left the exception above it.
C13_Witness ==
    /\ last.op = "check_string" /\ last.out = "err"
    /\ Len(stack) >= 2 /\ stack[Len(stack)] = ExcV /\ stack[Len(stack) - 1].t = "Number"

\* The report of a failed native at the head of what a run heard.
NativeFailed(heard) == \E i \in 1..(Len(heard) - 2) : heard[i] = "native" /\ heard[i + 1] = "false"
RaisedByNative(heard) ==
    heard[(CHOOSE i \in 1..(Len(heard) - 2) : heard[i] = "native" /\ heard[i + 1] = "false") + 2]

ReturnsCode == {"eval", "eval_in_module", "call", "compile"}
Returned == last.op \in ReturnsCode /\ last.out \notin {"running", "abort"}
Code == last.ffi[Len(last.ffi)]
KindOf ==
    [res \in JStarResult |->
        CASE res = "SyntaxErr" -> "Syntax" [] res = "CompileErr" -> "Compile"
          [] res = "RuntimeErr" -> "Runtime" [] res = "DeserializeErr" -> "Deserialize"
          [] res = "VersionErr" -> "Version" [] OTHER -> "ok"]

HeardKinds ==
    [i \in {j \in 1..(Len(last.ffi) - 1) : last.ffi[j] = "error_callback"} |-> last.ffi[i + 1]]

\* C16: on a VM with an error callback, an eval that returns Syntax, Compile
\* or Runtime has had the callback invoked exactly once, with that kind, and
\* an eval that returns Ok has not had it invoked.
C16_CallbackOncePerFailure ==
    (Returned /\ last.op = "eval" /\ tramp.error_callback) =>
       /\ last.out \in {"Syntax", "Compile", "Runtime"} =>
             /\ Cardinality(DOMAIN HeardKinds) = 1
             /\ \A i \in DOMAIN HeardKinds : HeardKinds[i] = last.out
       /\ last.out = "ok" => DOMAIN HeardKinds = {}

\* C16 witness: an eval returned Syntax after the callback heard Syntax, with
\* a line, once.
C16_Witness ==
    /\ last.op = "eval" /\ last.out = "Syntax" /\ tramp.error_callback
    /\ last.ffi = <<"error_trampoline", "error_callback", "Syntax", ScriptPath, "Some",
                    "SyntaxErr">>

\* A run without what it heard.
Unheard(f) == [f EXCEPT !.heard = <<>>]

AllNull(r) ==
    /\ r.code = NullPtr /\ r.code_len = 0 /\ r.path = NullPtr /\ r.reg = NullPtr
    /\ ~r.finalize /\ r.user_data = NullPtr
\* The notifications the error callback got during the run that just returned.
Notified == {i \in 1..Len(last.ffi) : last.ffi[i] = "error_callback"}

Pending == {i \in 1..Len(frames) : frames[i].imp # DefaultResult}

\* C19: a result record for a resolved import points into one allocated box
\* that holds the module's code and path, with the code's length; the box
\* stays allocated for as long as the record is held; only boxes of held
\* records are allocated, so the finalizer, called once for each record,
\* releases each box once and leaves none allocated.
C19_ImportBuffers ==
    /\ \A i \in Pending :
          LET r == frames[i].imp
          IN /\ Allocated(r.user_data) /\ r.code = r.user_data /\ r.path = r.user_data
             /\ r.finalize
             /\ r.code_len = Len(At(r.user_data).code)
             /\ \E m \in ImportAnswers \ {NoModule} :
                   /\ At(r.user_data).code = ImportCode(m)
                   /\ At(r.user_data).path = m.path
    /\ \A b \in heap : \E i \in Pending : frames[i].imp.user_data = b.addr
    /\ \A b, d \in heap : b.addr = d.addr => b = d
    /\ Cardinality(heap) = Cardinality(Pending)
    /\ (last.op = "import_trampoline" /\ last.out = "module") => Cardinality(heap) = 1
    /\ last.op = "finalize_import" => last.out = "ok" /\ last.ffi = <<"drop_box">> /\ heap = {}
    /\ Pending = {} => heap = {}

\* C19 witness: the trampoline has returned the record of a resolved module
\* and the foreign runtime has not loaded it yet.
C19_Witness ==
    /\ last.op = "import_trampoline" /\ last.out = "module"
    /\ frames # <<>> /\ TopFrame.imp.finalize /\ Allocated(TopFrame.imp.user_data)
    /\ At(TopFrame.imp.user_data).code = ModuleText

----------------------------------------------------------------------------
\* Importing a module as source text and as bytecode

\* The first byte of compiled code, which no source text starts with.
BytecodeHeader == 181
HasNul(b) == \E i \in 1..Len(b) : b[i] = 0

\* jsrCompileCode: the bytecode of a source text.
jsrCompileCode(src) == <<BytecodeHeader>> \o CStringInto(src)
\* The JStarBuffer jsrCompileCode fills: size bytes of bytecode at data, in an
\* allocation of capacity bytes.
SpareByte == 33
JStarBuffer(bytes) ==
    [data |-> bytes \o <<SpareByte>>, size |-> Len(bytes), capacity |-> Len(bytes) + 1]
\* The slice taken over the buffer's whole allocation.
from_raw_parts_capacity(buf) == SubSeq(buf.data, 1, buf.capacity)
\* from_raw_parts(buf.data, buf.size): the slice compile writes out.
from_raw_parts(buf) == SubSeq(buf.data, 1, buf.size)
\* compile_in_memory: the bytes jsrCompileCode left in its buffer.
compile_in_memory(text) == from_raw_parts(JStarBuffer(jsrCompileCode(CString(text))))

\* What the foreign runtime runs for the len bytes at code: the module the
\* bytecode was compiled from, or the module the source text declares.
Loaded(code, len) ==
    LET bytes == SubSeq(code, 1, len)
    IN IF bytes # <<>> /\ bytes[1] = BytecodeHeader THEN Tail(bytes) ELSE bytes

ModulePathName == <<60, 116, 62>>
ImportKinds == {"Source", "Binary"}
Resolve(kind, text) ==
    IF kind = "Source" THEN ModuleSource(text, ModulePathName)
    ELSE ModuleBinary(compile_in_memory(text), ModulePathName)

Imp(op, out, kind, text, globals) ==
    [op |-> op, h |-> 0, out |-> out, ffi |-> <<>>, kind |-> kind, text |-> text,
     globals |-> globals]

InitImp ==
    /\ InitNum!1 /\ InitNum!3 /\ InitNum!4 /\ InitNum!5 /\ InitNum!6
    /\ InitNum!7 /\ InitNum!8 /\ InitNum!9 /\ InitNum!11
    /\ tramp = [status |-> "alloc", addr |-> BoxAddr, error_callback |-> FALSE,
                import_callback |-> TRUE]
    /\ last = Imp("none", "ok", "Source", <<>>, <<>>)

\* eval of a script that imports the module.
importing_eval(h) ==
    /\ Usable(h, "eval") /\ frames = <<>>
    /\ frames' = <<Frame("eval", Len(stack), 0, h)>>
    /\ last' = Imp("eval", "running", "Source", <<>>, <<>>)
    /\ UNCHANGED <<rt, tramp, log, handles, stack, cap, views, aborted, heap>>

\* The import callback answers with the module made from text, as source or
\* compiled in memory, and import_trampoline hands it to the runtime; text
\* with a terminator byte makes CString::new panic.
import_resolved(kind, text) ==
    /\ ForeignTurn /\ TopFrame.res = "Success" /\ TopFrame.imp = DefaultResult
    /\ last.op = "eval"
    /\ IF HasNul(text)
       THEN /\ aborted' = "panic"
            /\ last' = Imp("import_trampoline", "abort", kind, text, <<>>)
            /\ UNCHANGED <<frames, heap>>
       ELSE LET answer == import_trampoline(tramp.import_callback, Resolve(kind, text),
                                            FreshBuf)
            IN /\ heap' = heap \cup answer.boxed
               /\ frames' = Imported(frames, answer.result)
               /\ last' = Imp("import_trampoline", "module", kind, text, <<>>)
               /\ UNCHANGED aborted
    /\ UNCHANGED <<rt, tramp, log, handles, stack, cap, views>>

\* The foreign runtime loads the module through the result record and calls
\* the finalizer.
import_loaded ==
    /\ ForeignTurn /\ TopFrame.imp # DefaultResult
    /\ Allocated(TopFrame.imp.code)
    /\ heap' = finalize_import(heap, TopFrame.imp.user_data)
    /\ frames' = [frames EXCEPT ![Len(frames)].imp = DefaultResult]
    /\ last' = Imp("finalize_import", "ok", last.kind, last.text,
                   Loaded(At(TopFrame.imp.code).code, TopFrame.imp.code_len))
    /\ UNCHANGED <<rt, tramp, log, handles, stack, cap, views, aborted>>

\* The importing script ends; the module's globals stay readable.
importing_done ==
    /\ ForeignTurn /\ TopFrame.imp = DefaultResult /\ last.op = "finalize_import"
    /\ frames' = <<>>
    /\ last' = Imp("eval", ErrorKind(TopFrame.res), last.kind, last.text, last.globals)
    /\ UNCHANGED <<rt, tramp, log, handles, stack, cap, views, aborted, heap>>

NextImp ==
    \/ \E h \in HandleIds : importing_eval(h)
    \/ \E kind \in ImportKinds, text \in ByteSeqs : import_resolved(kind, text)
    \/ import_loaded
    \/ importing_done

SpecImp == InitImp /\ [][NextImp]_vars

\* C20: a module resolved as source text and the same module resolved as
\* bytecode compiled from that text are handed to the foreign runtime so
\* that it loads the same module, and after the importing script has run the
\* module's globals are those the text declares, whichever way it was
\* resolved.
C20_SourceBinarySame ==
    /\ \A text \in ByteSeqs : \A a \in BufAddrs :
          ~HasNul(text) =>
             LET src == import_trampoline(TRUE, Resolve("Source", text), a)
                 bin == import_trampoline(TRUE, Resolve("Binary", text), a)
                 code(x) == (CHOOSE b \in x.boxed : TRUE).code
             IN Loaded(code(src), src.result.code_len) = Loaded(code(bin), bin.result.code_len)
    /\ (last.op \in {"finalize_import", "eval"} /\ last.out = "ok") =>
          last.globals = last.text

\* C20 witness: the importing script has run with the module resolved as
\* bytecode, and the globals the text declares are there.
C20_Witness ==
    /\ last.op = "eval" /\ last.out = "ok" /\ last.kind = "Binary"
    /\ last.text = <<65, 255>> /\ last.globals = <<65, 255>> /\ heap = {}

----------------------------------------------------------------------------
\* Calls, peeks and globals

C23_PeekTopExact ==
    (\E h \in HandleIds : Usable(h, "peek_top")) =>
       \A slot \in (-1)..(MaxLen + 1) :
          \A r \in peek_top_runs(slot) :
             /\ (slot <= 0 \/ Height < slot + 1) => r.out = "abort"
             /\ r.out = "ok" =>
                   /\ Populated(peek_top_index(slot))
                   /\ Pos(peek_top_index(slot)) = Len(stack) - slot

\* C24: with room for one value get_global pushes exactly one, the global's
\* value with Ok and an exception with Err(Runtime), and leaves what was on
\* the stack as it was; with no room it panics before the lookup.
C24_GetGlobalPushesOne ==
    /\ (\E h \in HandleIds : Usable(h, "get_global")) =>
          \A found \in Bools, v \in CallResults :
             \A r \in get_global_runs(found, v) :
                IF validate_stack
                THEN /\ r.out = (IF found THEN "ok" ELSE "err")
                     /\ r.stack = Append(stack, IF found THEN v ELSE ExcV)
                ELSE r.out = "abort" /\ r.stack = stack /\ r.ffi = <<"jsrValidateStack">>
    /\ (last.op = "get_global" /\ last.out = "err") =>
          stack # <<>> /\ stack[Len(stack)] = ExcV
    /\ (last.op = "get_global" /\ last.out = "ok") =>
          stack # <<>> /\ stack[Len(stack)] \in CallResults

\* C24 witness: get_global failed and left the exception above the value that
\* was on the stack.
C24_Witness ==
    /\ last.op = "get_global" /\ last.out = "err"
    /\ Len(stack) = 2 /\ stack[2] = ExcV /\ stack[1] = Num(Zero)

----------------------------------------------------------------------------
\* Modules and globals (vm.rs: eval, eval_in_module, compile, get_global,
\* set_global, push_native, register_native).  Texts are byte sequences; the
\* foreign runtime keeps the set of its modules and their global bindings.

\* Largest number of statements in a script.
MaxStmts == 2

\* "__main__", and a module the host names "t".
MAIN_MODULE == <<95, 95, 109, 97, 105, 110, 95, 95>>
TestModule == <<116>>
\* A script is a sequence of one-byte statements: `x` declares the global x
\* with the value 0, `!` raises, `?` (and any other byte) does not parse.
VarStmt == 120
RaiseStmt == 33
BadStmt == 63
Scripts == UNION {[1..n -> {VarStmt, RaiseStmt}] : n \in 0..MaxStmts}
Compiles(text) == \A i \in 1..Len(text) : text[i] \in {VarStmt, RaiseStmt}

\* CString::new without the check for an interior zero byte.
CStringNew_unchecked(b) == [ok |-> TRUE, c |-> b \o <<0>>]
\* CString::new(b): an error, which expect turns into a panic, when b holds a
\* zero byte; otherwise b with a terminator.
CStringNew(b) == [ok |-> ~HasNul(b), c |-> b \o <<0>>]
\* What the foreign side reads through as_ptr(): the bytes before the first
\* zero byte.
AsCStr(c) == SubSeq(c, 1, CStrLen(c))

Bound(gl, m, n) == \E b \in gl : b.m = m /\ b.n = n
ValueOf(gl, m, n) == (CHOOSE b \in gl : b.m = m /\ b.n = n).v
Bind(gl, m, n, v) ==
    {b \in gl : ~(b.m = m /\ b.n = n)} \cup {[m |-> m, n |-> n, v |-> v]}

\* The part of the program's state a wrapper acts on, and one outcome of a
\* wrapper: what it returns, the foreign calls it made, what it leaves.
World == [stack |-> stack, cap |-> cap, modules |-> rt.modules, globals |-> rt.globals]
Out(out, ffi, w) ==
    [out |-> out, ffi |-> ffi, stack |-> w.stack, modules |-> w.modules,
     globals |-> w.globals]
After(w, r) ==
    [w EXCEPT !.stack = r.stack, !.modules = r.modules, !.globals = r.globals]
Effect(r) == [stack |-> r.stack, modules |-> r.modules, globals |-> r.globals]
Stopped(r) == r.out \in {"abort", "crash"}

\* The foreign runtime runs a script in a module, creating the module when
\* it does not exist; the statements before a raise have taken effect.
RECURSIVE Exec(_, _, _, _)
Exec(text, module, mods, gl) ==
    IF text = <<>> THEN [res |-> "Success", modules |-> mods, globals |-> gl]
    ELSE IF Head(text) = RaiseStmt
    THEN [res |-> "RuntimeErr", modules |-> mods, globals |-> gl]
    ELSE Exec(Tail(text), module, mods, Bind(gl, module, <<Head(text)>>, Num(Zero)))
jsrEvalModule(w, module, code, len) ==
    LET text == Loaded(code, len)
    IN IF ~Compiles(text)
       THEN [res |-> "SyntaxErr", modules |-> w.modules, globals |-> w.globals]
       ELSE Exec(text, module, w.modules \cup {module}, w.globals)
jsrEval(w, code, len) == jsrEvalModule(w, MAIN_MODULE, code, len)
jsrCompileResult(src) == IF Compiles(CStringInto(src)) THEN "Success" ELSE "SyntaxErr"

ValidSlotOn(w, slot) ==
    IF slot < 0 THEN Len(w.stack) + slot >= 0 ELSE slot < Len(w.stack)
PushOn(w, out, ffi, v) ==
    IF Len(w.stack) < w.cap THEN {Out(out, ffi, [w EXCEPT !.stack = Append(@, v)])}
    ELSE {Out(out, ffi, [w EXCEPT !.stack = Append(@, v)]), Out("crash", ffi, w)}

\* eval: the path becomes a C string, the code goes over with its length.
eval_on(w, path, code) ==
    IF ~CStringNew(path).ok THEN {Out("abort", <<>>, w)}
    ELSE LET r == jsrEval(w, code, SliceLen(code))
         IN {Out(ErrorKind(r.res), <<"jsrEval", r.res>>,
                 [w EXCEPT !.modules = r.modules, !.globals = r.globals])}

\* eval_in_module evaluating in the main module whatever module is named.
eval_in_module_on_main(w, path, module, code) ==
    IF ~CStringNew(path).ok \/ ~CStringNew(module).ok THEN {Out("abort", <<>>, w)}
    ELSE LET r == jsrEvalModule(w, MAIN_MODULE, code, SliceLen(code))
         IN {Out(ErrorKind(r.res), <<"jsrEvalModule", r.res>>,
                 [w EXCEPT !.modules = r.modules, !.globals = r.globals])}
eval_in_module_on(w, path, module, code) ==
    IF ~CStringNew(path).ok \/ ~CStringNew(module).ok THEN {Out("abort", <<>>, w)}
    ELSE LET r == jsrEvalModule(w, AsCStr(CStringNew(module).c), code, SliceLen(code))
         IN {Out(ErrorKind(r.res), <<"jsrEvalModule", r.res>>,
                 [w EXCEPT !.modules = r.modules, !.globals = r.globals])}

\* compile into a Vec (compile_in_memory): the result and the bytes written.
compile_on(path, src) ==
    IF ~CStringNew(path).ok \/ ~CStringNew(src).ok
    THEN [out |-> "abort", ffi |-> <<>>, bytes |-> <<>>]
    ELSE LET res == jsrCompileResult(CStringNew(src).c)
         IN IF res # "Success"
            THEN [out |-> ErrorKind(res), ffi |-> <<"jsrCompileCode", res>>, bytes |-> <<>>]
            ELSE [out |-> "ok", ffi |-> <<"jsrCompileCode", "jsrBufferFree", res>>,
                  bytes |-> from_raw_parts(JStarBuffer(jsrCompileCode(CStringNew(src).c)))]

get_global_on(w, module_name, name) ==
    IF ~(Len(w.stack) < w.cap) THEN {Out("abort", <<"jsrValidateStack">>, w)}
    ELSE IF ~CStringNew(module_name).ok \/ ~CStringNew(name).ok
    THEN {Out("abort", <<"jsrValidateStack">>, w)}
    ELSE LET m == AsCStr(CStringNew(module_name).c)
             n == AsCStr(CStringNew(name).c)
             found == m \in w.modules /\ Bound(w.globals, m, n)
         IN PushOn(w, IF found THEN "ok" ELSE "err", <<"jsrValidateStack", "jsrGetGlobal">>,
                   IF found THEN ValueOf(w.globals, m, n) ELSE ExcV)

\* set_global popping the value it bound.
set_global_on_popping(w, module_name, name) ==
    IF ~ValidSlotOn(w, -1) THEN {Out("abort", <<"jsrValidateSlot">>, w)}
    ELSE IF ~CStringNew(module_name).ok \/ ~CStringNew(name).ok
    THEN {Out("abort", <<"jsrValidateSlot">>, w)}
    ELSE LET m == AsCStr(CStringNew(module_name).c)
             n == AsCStr(CStringNew(name).c)
         IN IF m \in w.modules
            THEN {Out("ok", <<"jsrValidateSlot", "jsrSetGlobal">>,
                      [w EXCEPT !.globals = Bind(@, m, n, w.stack[Len(w.stack)]),
                                !.stack = SubSeq(@, 1, Len(@) - 1)])}
            ELSE PushOn(w, "err", <<"jsrValidateSlot", "jsrSetGlobal">>, ExcV)
\* set_global: jsrSetGlobal binds the name in the module to the value on top
\* of the stack, or raises, leaving an exception, when the module does not
\* exist.
set_global_on(w, module_name, name) ==
    IF ~ValidSlotOn(w, -1) THEN {Out("abort", <<"jsrValidateSlot">>, w)}
    ELSE IF ~CStringNew(module_name).ok \/ ~CStringNew(name).ok
    THEN {Out("abort", <<"jsrValidateSlot">>, w)}
    ELSE LET m == AsCStr(CStringNew(module_name).c)
             n == AsCStr(CStringNew(name).c)
         IN IF m \in w.modules
            THEN {Out("ok", <<"jsrValidateSlot", "jsrSetGlobal">>,
                      [w EXCEPT !.globals = Bind(@, m, n, w.stack[Len(w.stack)])])}
            ELSE PushOn(w, "err", <<"jsrValidateSlot", "jsrSetGlobal">>, ExcV)

push_native_on(w, module, name) ==
    IF ~CStringNew(module).ok \/ ~CStringNew(name).ok THEN {Out("abort", <<>>, w)}
    ELSE LET found == AsCStr(CStringNew(module).c) \in w.modules
         IN PushOn(w, IF found THEN "ok" ELSE "err", <<"jsrPushNative">>,
                   IF found THEN NativeV ELSE ExcV)

pop_on(w) ==
    IF ~ValidSlotOn(w, -1) THEN {Out("abort", <<"jsrValidateSlot">>, w)}
    ELSE {Out("ok", <<"jsrValidateSlot", "jsrPop">>,
              [w EXCEPT !.stack = SubSeq(@, 1, Len(@) - 1)])}

\* register_native without the final jsrPop.
register_native_on_keeping(w, module, name) ==
    UNION {IF p.out # "ok" THEN {p}
           ELSE {IF s.out # "ok" THEN [s EXCEPT !.ffi = p.ffi \o @]
                 ELSE [s EXCEPT !.ffi = p.ffi \o @] :
                    s \in set_global_on(After(w, p), module, name)} :
              p \in push_native_on(w, module, name)}
\* register_native: push_native(..)?; set_global(..)?; jsrPop; Ok(()).
register_native_on(w, module, name) ==
    UNION {IF p.out # "ok" THEN {p}
           ELSE {IF s.out # "ok" THEN [s EXCEPT !.ffi = p.ffi \o @]
                 ELSE [s EXCEPT !.ffi = p.ffi \o @ \o <<"jsrPop">>,
                                !.stack = SubSeq(@, 1, Len(@) - 1)] :
                    s \in set_global_on(After(w, p), module, name)} :
              p \in push_native_on(w, module, name)}

\* The three calls register_native's doc gives as its equivalent, made one
\* after the other: vm.push_native(..); vm.set_global(..); vm.pop();
ThreeCalls(w, module, name) ==
    UNION {IF Stopped(p) THEN {p}
           ELSE UNION {IF Stopped(s) THEN {s} ELSE pop_on(After(w, s)) :
                          s \in set_global_on(After(w, p), module, name)} :
              p \in push_native_on(w, module, name)}

\* The texts tried: paths, module names and global names with and without a
\* zero byte, scripts as source and as the bytecode compiled from them.
Paths == {<<60>>, <<60, 0>>}
ModuleNames == {MAIN_MODULE, TestModule, <<116, 0>>}
GlobalNames == {<<VarStmt>>, <<VarStmt, 0>>}
LookupNames == GlobalNames \cup {<<121>>}
Sources == Scripts \cup {<<BadStmt>>, <<VarStmt, 0>>}
Codes == Sources \cup {compile_on(<<60>>, t).bytes : t \in Scripts}

Glob(op, h, out, ffi, module, name, code) ==
    [op |-> op, h |-> h, out |-> out, ffi |-> ffi, module |-> module, name |-> name,
     code |-> code]

\* A VM made by VM::new, before or after init_runtime; the runtime starts
\* with its main module.
InitGlob ==
    /\ \E st \in {"Uninit", "Init"} :
          /\ rt = [status |-> IF st = "Init" THEN "init" ELSE "new",
                   custom_data |-> BoxAddr, modules |-> {MAIN_MODULE}, globals |-> {}]
          /\ log = IF st = "Init" THEN <<"jsrNewVM", "jsrInitRuntime">> ELSE <<"jsrNewVM">>
          /\ handles = [h \in HandleIds |-> IF h = 2 THEN Handle(st, Owned(BoxAddr))
                                            ELSE NoHandle]
    /\ InitNum!2 /\ InitNum!5 /\ InitNum!7 /\ InitNum!8 /\ InitNum!9 /\ InitNum!11
    /\ cap = MaxLen
    /\ last = Glob("none", 0, "ok", <<>>, <<>>, <<>>, <<>>)

GlobApply(op, h, r, module, name, code) ==
    /\ Len(r.stack) <= MaxLen
    /\ aborted' = (CASE r.out = "abort" -> "panic" [] r.out = "crash" -> "crash"
                     [] OTHER -> "no")
    /\ stack' = r.stack
    /\ rt' = [rt EXCEPT !.modules = r.modules, !.globals = r.globals]
    /\ last' = Glob(op, h, r.out, r.ffi, module, name, code)
    /\ UNCHANGED <<tramp, log, handles, cap, frames, views, heap>>

eval_code(h, path, code) ==
    /\ Usable(h, "eval")
    /\ \E r \in eval_on(World, path, code) : GlobApply("eval", h, r, MAIN_MODULE, <<>>, code)
eval_in_module_code(h, path, module, code) ==
    /\ Usable(h, "eval_in_module")
    /\ \E r \in eval_in_module_on(World, path, module, code) :
          GlobApply("eval_in_module", h, r, module, <<>>, code)
compile_source(h, path, src) ==
    /\ Usable(h, "compile_in_memory")
    /\ LET c == compile_on(path, src)
       IN GlobApply("compile_in_memory", h, Out(c.out, c.ffi, World), <<>>, src, c.bytes)
get_global_named(h, module, name) ==
    /\ Usable(h, "get_global")
    /\ \E r \in get_global_on(World, module, name) :
          GlobApply("get_global", h, r, module, name, <<>>)
set_global_named(h, module, name) ==
    /\ Usable(h, "set_global")
    /\ \E r \in set_global_on(World, module, name) :
          GlobApply("set_global", h, r, module, name, <<>>)
push_native_named(h, module, name) ==
    /\ Usable(h, "push_native")
    /\ \E r \in push_native_on(World, module, name) :
          GlobApply("push_native", h, r, module, name, <<>>)
register_native(h, module, name) ==
    /\ Usable(h, "register_native")
    /\ \E r \in register_native_on(World, module, name) :
          GlobApply("register_native", h, r, module, name, <<>>)
pop_value(h) ==
    /\ Usable(h, "pop")
    /\ \E r \in pop_on(World) : GlobApply("pop", h, r, <<>>, <<>>, <<>>)

NextGlob ==
    \/ \E h \in HandleIds : init_runtime(h)
    \/ \E h \in HandleIds, path \in Paths, code \in Codes : eval_code(h, path, code)
    \/ \E h \in HandleIds, path \in Paths, module \in ModuleNames, code \in Codes :
          eval_in_module_code(h, path, module, code)
    \/ \E h \in HandleIds, path \in Paths, src \in Sources : compile_source(h, path, src)
    \/ \E h \in HandleIds, module \in ModuleNames, name \in LookupNames :
          get_global_named(h, module, name)
    \/ \E h \in HandleIds, module \in ModuleNames, name \in GlobalNames :
          set_global_named(h, module, name)
    \/ \E h \in HandleIds, module \in ModuleNames, name \in GlobalNames :
          push_native_named(h, module, name)
    \/ \E h \in HandleIds, module \in ModuleNames, name \in GlobalNames :
          register_native(h, module, name)
    \/ \E h \in HandleIds : pop_value(h)

SpecGlob == InitGlob /\ [][NextGlob]_vars

\* The names without a zero byte, and what views of the outcomes are compared.
GoodPath == <<60>>
GoodModules == {MAIN_MODULE, TestModule}
GoodName == <<VarStmt>>
Room == Len(stack) < cap
Returned3(rs) == {Effect(r) : r \in {x \in rs : ~Stopped(x)}}
Verdicts(rs) == {[out |-> r.out, effect |-> Effect(r)] : r \in rs}
\* The statements of a piece of code, source or bytecode.
TextOf(code) == Loaded(code, Len(code))
Declares(code) == \E i \in 1..Len(TextOf(code)) : TextOf(code)[i] = VarStmt

\* C21: for every source text that compiles, compile (on a VM of either
\* phase) succeeds, and evaluating the bytes it wrote, with eval or with
\* eval_in_module, gives the same result and leaves the same modules and
\* globals as evaluating the text itself in the same module; a global the
\* evaluated bytecode declared reads back with the declared value.
C21_CompiledSameAsSource ==
    /\ \A text \in Scripts :
          Compiles(text) =>
             LET c == compile_on(GoodPath, text)
             IN /\ c.out = "ok"
                /\ c.bytes # text
                /\ eval_on(World, GoodPath, c.bytes) = eval_on(World, GoodPath, text)
                /\ \A module \in GoodModules :
                      eval_in_module_on(World, GoodPath, module, c.bytes)
                         = eval_in_module_on(World, GoodPath, module, text)
    /\ (/\ last.op \in {"eval", "eval_in_module"} /\ last.out = "ok"
        /\ last.code # <<>> /\ Head(last.code) = BytecodeHeader /\ Declares(last.code))
          => /\ Bound(rt.globals, last.module, GoodName)
             /\ ValueOf(rt.globals, last.module, GoodName) = Num(Zero)

\* C21 witness: bytecode compiled from `x` was evaluated in module t and the
\* global it declares is there.
C21_Witness ==
    /\ last.op = "eval_in_module" /\ last.out = "ok" /\ last.module = TestModule
    /\ last.code = compile_on(GoodPath, <<VarStmt>>).bytes
    /\ Bound(rt.globals, TestModule, GoodName)

\* C25: set_global on an existing module returns Ok, leaves the stack as it
\* was and binds the name to the value on top, so that a following
\* get_global of that module and name pushes an equal value; on a module
\* that does not exist it binds nothing and, returning Err(Runtime), leaves
\* the exception above the value.
C25_SetGlobalBinds ==
    /\ ((\E h \in HandleIds : Usable(h, "set_global")) /\ stack # <<>>) =>
          \A module \in GoodModules :
             /\ {R(r.out, r.ffi, r.stack) : r \in set_global_on(World, module, GoodName)}
                   = set_global_runs(module \in rt.modules)
             /\ \A r \in set_global_on(World, module, GoodName) :
                   IF module \in rt.modules
                   THEN /\ r.out = "ok" /\ r.stack = stack /\ r.modules = rt.modules
                        /\ Bound(r.globals, module, GoodName)
                        /\ ValueOf(r.globals, module, GoodName) = stack[Len(stack)]
                        /\ {b \in r.globals : ~(b.m = module /\ b.n = GoodName)}
                              = {b \in rt.globals : ~(b.m = module /\ b.n = GoodName)}
                        /\ Room =>
                              \A g \in get_global_on(After(World, r), module, GoodName) :
                                 /\ g.out = "ok"
                                 /\ g.stack = Append(stack, stack[Len(stack)])
                   ELSE /\ r.out \in {"err", "crash"}
                        /\ r.modules = rt.modules /\ r.globals = rt.globals
                        /\ r.out = "err" => r.stack = Append(stack, ExcV)
    /\ (last.op = "set_global" /\ last.out = "ok") =>
          /\ stack # <<>>
          /\ Bound(rt.globals, last.module, last.name)
          /\ ValueOf(rt.globals, last.module, last.name) = stack[Len(stack)]
    /\ (last.op = "set_global" /\ last.out = "err") =>
          /\ Len(stack) >= 2 /\ stack[Len(stack)] = ExcV
          /\ last.module \notin rt.modules

\* C25 witness: the native on the stack was bound over the declared global x
\* of module t and is still on the stack.
C25_Witness ==
    /\ last.op = "set_global" /\ last.out = "ok" /\ last.module = TestModule
    /\ stack = <<NativeV>>
    /\ ValueOf(rt.globals, TestModule, GoodName) = NativeV

\* C26: after eval_in_module has run code in module m, a global the code
\* declared is read by get_global(m, name); the bindings of every other
\* module are as before, so get_global on another module for a name that
\* was not bound there returns Err(Runtime); eval is eval_in_module on the
\* main module.
C26_ModuleScopedGlobals ==
    /\ (\E h \in HandleIds : Usable(h, "eval_in_module")) =>
          \A code \in Codes, module \in GoodModules :
             /\ Verdicts(eval_on(World, GoodPath, code))
                   = Verdicts(eval_in_module_on(World, GoodPath, MAIN_MODULE, code))
             /\ \A r \in eval_in_module_on(World, GoodPath, module, code) :
                   /\ {b \in r.globals : b.m # module} = {b \in rt.globals : b.m # module}
                   /\ (r.out = "ok" /\ Declares(code) /\ Room) =>
                         /\ \A g \in get_global_on(After(World, r), module, GoodName) :
                               g.out = "ok" /\ g.stack = Append(stack, Num(Zero))
                         /\ \A other \in GoodModules \ {module} :
                               ~Bound(rt.globals, other, GoodName) =>
                                  \A g \in get_global_on(After(World, r), other, GoodName) :
                                     g.out = "err" /\ g.stack = Append(stack, ExcV)
    /\ (last.op = "eval_in_module" /\ last.out = "ok" /\ Declares(last.code)) =>
          Bound(rt.globals, last.module, GoodName)
    /\ (last.op = "get_global" /\ last.out = "ok") =>
          /\ Bound(rt.globals, last.module, last.name)
          /\ stack[Len(stack)] = ValueOf(rt.globals, last.module, last.name)
    /\ (last.op = "get_global" /\ last.out = "err") =>
          ~(last.module \in rt.modules /\ Bound(rt.globals, last.module, last.name))

\* C26 witness: x is declared in module t and not in the main module, and
\* get_global on the main module has just failed for it.
C26_Witness ==
    /\ last.op = "get_global" /\ last.out = "err"
    /\ last.module = MAIN_MODULE /\ last.name = GoodName
    /\ Bound(rt.globals, TestModule, GoodName)
    /\ ~Bound(rt.globals, MAIN_MODULE, GoodName)

\* C27: register_native leaves what push_native, set_global and pop made one
\* after the other leave; with Ok the stack is as before and the name is
\* bound to the native in the module, with nothing else rebound; with
\* Err(Runtime) the bindings are as before and exactly one value, an
\* exception, is added to the stack.
C27_RegisterNative ==
    /\ (\E h \in HandleIds : Usable(h, "register_native")) =>
          \A module \in GoodModules :
             /\ Returned3(register_native_on(World, module, GoodName))
                   = Returned3(ThreeCalls(World, module, GoodName))
             /\ \A r \in register_native_on(World, module, GoodName) :
                   /\ r.out \in {"ok", "err", "crash"}
                   /\ (r.out = "ok") <=> (module \in rt.modules /\ ~Stopped(r))
                   /\ r.out = "ok" =>
                         /\ r.stack = stack /\ r.modules = rt.modules
                         /\ Bound(r.globals, module, GoodName)
                         /\ ValueOf(r.globals, module, GoodName) = NativeV
                         /\ {b \in r.globals : ~(b.m = module /\ b.n = GoodName)}
                               = {b \in rt.globals : ~(b.m = module /\ b.n = GoodName)}
                   /\ r.out = "err" =>
                         /\ r.stack = Append(stack, ExcV)
                         /\ r.modules = rt.modules /\ r.globals = rt.globals
    /\ (last.op = "register_native" /\ last.out = "ok") =>
          ValueOf(rt.globals, last.module, last.name) = NativeV
    /\ (last.op = "register_native" /\ last.out = "err") =>
          /\ stack # <<>> /\ stack[Len(stack)] = ExcV
          /\ last.module \notin rt.modules

\* C27 witness: register_native failed on the module t, which does not
\* exist, and left one exception on the stack that was empty.
C27_Witness ==
    /\ last.op = "register_native" /\ last.out = "err" /\ last.module = TestModule
    /\ stack = <<ExcV>> /\ rt.globals = {}

\* check_number / check_string with the name they take: the slot is
\* asserted valid, then the name becomes a C string.
check_number_named(slot, name) ==
    IF ~validate_slot(slot) THEN {R("abort", <<"jsrValidateSlot">>, stack)}
    ELSE IF ~CStringNew(name).ok THEN {R("abort", <<"jsrValidateSlot">>, stack)}
    ELSE check_number_runs(slot)
check_string_named(slot, name) ==
    IF ~validate_slot(slot) THEN {R("abort", <<"jsrValidateSlot">>, stack)}
    ELSE IF ~CStringNew(name).ok THEN {R("abort", <<"jsrValidateSlot">>, stack)}
    ELSE check_string_runs(slot)
\* Module::source_with_reg and Module::binary_with_reg: source and path
\* become C strings, bytecode is kept as the bytes it is.
Module_source(src, path) ==
    IF ~CStringNew(src).ok \/ ~CStringNew(path).ok THEN [NoModule EXCEPT !.kind = "abort"]
    ELSE [kind |-> "Source", code |-> CStringNew(src).c, path |-> CStringNew(path).c,
          reg |-> NullPtr]
Module_binary(code, path) ==
    IF ~CStringNew(path).ok THEN [NoModule EXCEPT !.kind = "abort"]
    ELSE [kind |-> "Binary", code |-> code, path |-> CStringNew(path).c, reg |-> NullPtr]

\* Outcomes that are a panic with the stack, the modules and the globals
\* untouched and no foreign call made but a validation.
Checks == {<<>>, <<"jsrValidateSlot">>, <<"jsrValidateStack">>}
PanicsUntouched(rs) ==
    /\ rs # {}
    /\ \A r \in rs : /\ r.out = "abort" /\ r.ffi \in Checks
                     /\ Effect(r) = Effect(Out("abort", <<>>, World))
PanicsUntouchedStack(rs) ==
    rs # {} /\ \A r \in rs : r.out = "abort" /\ r.ffi \in Checks /\ r.stack = stack
NulTexts == {t \in Paths \cup ModuleNames \cup GlobalNames \cup Sources : HasNul(t)}

\* C28: a path, a source text to compile, a module name, a global name, the
\* name given to a checked getter, or the source or the path of a Module
\* that holds a zero byte makes the operation panic with no foreign call
\* made but a validation, and the stack, the modules and the globals as
\* they were; code given to eval, eval_in_module or Module::binary and bytes
\* given to push_string may hold zero bytes.
C28_EmbeddedNulAborts ==
    /\ \A bad \in NulTexts :
          /\ \A code \in Codes :
                /\ PanicsUntouched(eval_on(World, bad, code))
                /\ \A module \in GoodModules :
                      PanicsUntouched(eval_in_module_on(World, bad, module, code))
                /\ PanicsUntouched(eval_in_module_on(World, GoodPath, bad, code))
          /\ \A src \in Sources :
                /\ compile_on(bad, src).out = "abort" /\ compile_on(bad, src).ffi = <<>>
                /\ compile_on(GoodPath, bad).out = "abort"
                /\ compile_on(GoodPath, bad).ffi = <<>>
          /\ \A good \in GoodModules \cup {GoodName} :
                /\ Module_source(good, GoodPath) = ModuleSource(good, GoodPath)
                /\ PanicsUntouched(get_global_on(World, bad, good))
                /\ PanicsUntouched(get_global_on(World, good, bad))
                /\ PanicsUntouched(set_global_on(World, bad, good))
                /\ PanicsUntouched(set_global_on(World, good, bad))
                /\ PanicsUntouched(push_native_on(World, bad, good))
                /\ PanicsUntouched(push_native_on(World, good, bad))
                /\ PanicsUntouched(register_native_on(World, bad, good))
                /\ PanicsUntouched(register_native_on(World, good, bad))
          /\ \A slot \in Slots :
                /\ PanicsUntouchedStack(check_number_named(slot, bad))
                /\ PanicsUntouchedStack(check_string_named(slot, bad))
          /\ Module_source(bad, GoodPath).kind = "abort"
          /\ Module_source(<<VarStmt>>, bad).kind = "abort"
          /\ Module_binary(<<VarStmt>>, bad).kind = "abort"
          /\ \A r \in eval_on(World, GoodPath, bad) \cup
                      eval_in_module_on(World, GoodPath, TestModule, bad) :
                r.out # "abort" /\ r.ffi # <<>>
          /\ Module_binary(bad, GoodPath).kind = "Binary"
          /\ Module_binary(bad, GoodPath).code = bad
          /\ \A r \in push_string_runs(bad) :
                r.out # "abort" /\ (r.out = "ok" => r.stack = Append(stack, Str(bad)))
    /\ (last.out = "abort" /\ last.op # "init_runtime"
        /\ (HasNul(last.module) \/ HasNul(last.name))) =>
          /\ aborted = "panic"
          /\ last.ffi \in Checks
          /\ "jsrCompileCode" \notin Range(last.ffi)

\* C28 witness: set_global with a module name that holds a zero byte
\* panicked with the value still on the stack and nothing bound.
C28_Witness ==
    /\ last.op = "set_global" /\ last.out = "abort" /\ HasNul(last.module)
    /\ aborted = "panic" /\ stack = <<NativeV>> /\ rt.globals = {}

----------------------------------------------------------------------------
\* Threads (vm.rs: `unsafe impl Send for VM`; VM holds a raw pointer, so it is
\* not Sync and a reference to it cannot be given to another thread).  Here
\* every wrapper has the thread that owns it, `frames` holds for each thread
\* the operations and callbacks it is inside of, innermost last.

\* Number of host threads.
MaxThreads == 3
Threads == 1..MaxThreads

ThreadHandle(st, o, t) == [own |-> o.tag, state |-> st, box |-> o.box, thread |-> t]
ThreadFrame(kind, h, by) == [kind |-> kind, h |-> h, by |-> by]
Ran(op, h, out, t) == [op |-> op, h |-> h, out |-> out, ffi |-> <<>>, thread |-> t]

\* The operations that run foreign code, which may call back into the host,
\* and some that do not.
RunOps == {"eval", "eval_in_module", "call"}
QuickOps == {"push_number", "get_global", "pop"}

InitThr ==
    /\ InitNum!1 /\ InitNum!2 /\ InitNum!3 /\ InitNum!5 /\ InitNum!6
    /\ InitNum!8 /\ InitNum!9 /\ InitNum!11
    /\ handles = [h \in HandleIds |-> IF h = 1 THEN ThreadHandle("Init", Owned(BoxAddr), 1)
                                      ELSE NoHandle]
    /\ frames = [t \in Threads |-> <<>>]
    /\ last = Ran("none", 0, "ok", 1)

\* A VM that is Sync as well: any thread reaches a live wrapper by reference.
Reaches_shared(t, h) == Live(h)
\* VM is Send and not Sync: a wrapper is reached only from the thread that
\* owns it.
Reaches(t, h) == Live(h) /\ handles[h].thread = t

Inner(t) == frames[t][Len(frames[t])]
\* Thread t is running host code that holds h: its top level holds the Owned
\* wrapper, a native's body holds the wrapper native! made for it.
Holds(t, h) ==
    IF frames[t] = <<>> THEN handles[h].own = "Owned"
    ELSE Inner(t).kind = "native" /\ Inner(t).h = h
\* The wrapper is borrowed by an operation that has not returned.
Borrowed(h) == \E t \in Threads : \E i \in 1..Len(frames[t]) : frames[t][i].by = h

\* A method of VM is entered on thread t, and returns.
Enter(t, h, op) ==
    /\ aborted = "no"
    /\ Reaches(t, h) /\ Holds(t, h)
    /\ Len(frames[t]) <= MaxDepth
    /\ frames' = [frames EXCEPT ![t] = Append(@, ThreadFrame(op, 0, h))]
    /\ last' = Ran(op, h, "running", t)
    /\ UNCHANGED <<rt, tramp, log, handles, stack, cap, views, aborted, heap>>
Leave(t) ==
    /\ aborted = "no" /\ frames[t] # <<>> /\ Inner(t).kind # "native"
    /\ frames' = [frames EXCEPT ![t] = SubSeq(@, 1, Len(@) - 1)]
    /\ last' = Ran(Inner(t).kind, Inner(t).by, "ok", t)
    /\ UNCHANGED <<rt, tramp, log, handles, stack, cap, views, aborted, heap>>

\* The foreign code a thread is running calls a native, on that thread;
\* native! makes its wrapper with from_ptr and drops it when the body ends.
NativeCalled(t) ==
    /\ aborted = "no" /\ frames[t] # <<>> /\ Inner(t).kind \in RunOps
    /\ Len(frames[t]) < MaxDepth
    /\ FreeIds # {}
    /\ handles' = [handles EXCEPT ![FreshId] = ThreadHandle("Init", NonOwned, t)]
    /\ frames' = [frames EXCEPT ![t] = Append(@, ThreadFrame("native", FreshId, 0))]
    /\ last' = Ran("native", FreshId, "running", t)
    /\ UNCHANGED <<rt, tramp, log, stack, cap, views, aborted, heap>>
NativeDone(t) ==
    /\ aborted = "no" /\ frames[t] # <<>> /\ Inner(t).kind = "native"
    /\ handles' = [handles EXCEPT ![Inner(t).h] = NoHandle]
    /\ frames' = [frames EXCEPT ![t] = SubSeq(@, 1, Len(@) - 1)]
    /\ last' = Ran("native", Inner(t).h, "ok", t)
    /\ UNCHANGED <<rt, tramp, log, stack, cap, views, aborted, heap>>

\* The Owned wrapper is moved to another thread (VM: Send); a value that is
\* borrowed cannot be moved, and a native's wrapper is held by reference.
SendTo(h, u) ==
    /\ aborted = "no"
    /\ Live(h) /\ handles[h].own = "Owned" /\ handles[h].thread # u
    /\ frames[handles[h].thread] = <<>>
    /\ ~Borrowed(h)
    /\ handles' = [handles EXCEPT ![h].thread = u]
    /\ last' = Ran("send", h, "ok", u)
    /\ UNCHANGED <<rt, tramp, log, stack, cap, frames, views, aborted, heap>>

NextThr ==
    \/ \E t \in Threads, h \in HandleIds, op \in RunOps \cup QuickOps : Enter(t, h, op)
    \/ \E t \in Threads : Leave(t)
    \/ \E t \in Threads : NativeCalled(t)
    \/ \E t \in Threads : NativeDone(t)
    \/ \E h \in HandleIds, u \in Threads : SendTo(h, u)

SpecThr == InitThr /\ [][NextThr]_vars

Executing(t) == frames[t] # <<>>

\* C29: the wrapper can be moved to another thread and used there, and at
\* any time at most one thread is inside an operation on the runtime; the
\* wrappers that thread is using are its own, and a wrapper changes thread
\* only while no operation is running on it.
C29_OneThreadAtATime ==
    /\ [](Cardinality({t \in Threads : Executing(t)}) <= 1)
    /\ [](\A t \in Threads : \A i \in 1..Len(frames[t]) :
            LET f == frames[t][i]
                w == IF f.kind = "native" THEN f.h ELSE f.by
            IN Live(w) /\ handles[w].thread = t)
    /\ [][\A h \in HandleIds :
            (Live(h) /\ Live(h)' /\ handles'[h].thread # handles[h].thread) =>
               /\ \A t \in Threads : ~Executing(t)
               /\ last'.op = "send"]_vars

\* C29 witness: the wrapper made on thread 1 is running an eval on thread 2,
\* inside a native's body.
C29_Witness ==
    /\ handles[1].thread = 2 /\ Len(frames[2]) = 3
    /\ frames[2][1].kind = "eval" /\ frames[2][2].kind = "native"
    /\ frames[1] = <<>>

----------------------------------------------------------------------------
\* Stack room (vm.rs: ensure_stack, push_number; native.rs:
\* MIN_NATIVE_STACK_SZ).  The stack grows to PushLimit values here.

\* Largest number of slots ensure_stack is asked for.
MaxNeeded == 3
PushLimit == MIN_NATIVE_STACK_SZ + MaxNeeded

\* n calls of push_number one after the other on a stack of len values with
\* capacity c: each asserts validate_stack and pushes one value.
RECURSIVE Pushes(_, _, _)
Pushes(len, c, n) ==
    IF n = 0 THEN "ok" ELSE IF ~(len < c) THEN "abort" ELSE Pushes(len + 1, c, n - 1)

InitPush ==
    /\ InitNum!1 /\ InitNum!2 /\ InitNum!3 /\ InitNum!4 /\ InitNum!5 /\ InitNum!6
    /\ InitNum!7 /\ InitNum!8 /\ InitNum!9 /\ InitNum!11
    /\ last = NoOp

push_one(h) ==
    /\ Usable(h, "push_number")
    /\ \E r \in push_number_runs(Zero) :
          /\ Len(r.stack) <= PushLimit
          /\ aborted' = (IF r.out = "abort" THEN "panic" ELSE "no")
          /\ stack' = r.stack
          /\ last' = Did("push_number", h, r.out, r.ffi)
    /\ UNCHANGED <<rt, tramp, log, handles, cap, frames, views, heap>>
pop_one(h) ==
    /\ Usable(h, "pop") /\ validate_slot(-1)
    /\ \E r \in pop_runs :
          /\ stack' = r.stack
          /\ last' = Did("pop", h, r.out, r.ffi)
    /\ UNCHANGED <<rt, tramp, log, handles, cap, frames, views, aborted, heap>>
ensure_room(h, needed) ==
    /\ Usable(h, "ensure_stack")
    /\ Len(stack) + needed <= PushLimit
    /\ cap' = jsrEnsureStack(needed)
    /\ last' = Did("ensure_stack", h, "ok", <<"jsrEnsureStack">>)
    /\ UNCHANGED <<rt, tramp, log, handles, stack, frames, views, aborted, heap>>
\* The running script calls a native with its arguments on the stack; the
\* runtime makes room for MIN_NATIVE_STACK_SZ values before the body runs.
NativeRoom(argc) ==
    /\ ForeignTurn
    /\ Len(frames) < MaxDepth
    /\ Len(stack) + argc + 1 + MIN_NATIVE_STACK_SZ <= PushLimit
    /\ stack' = stack \o <<NativeV>> \o [i \in 1..argc |-> Str(<<>>)]
    /\ cap' = IF cap < Len(stack) + argc + 1 + MIN_NATIVE_STACK_SZ
              THEN Len(stack) + argc + 1 + MIN_NATIVE_STACK_SZ ELSE cap
    /\ handles' = [handles EXCEPT ![FreshId] = from_ptr]
    /\ frames' = Append(frames, Frame("native", Len(stack), FreshId, 0))
    /\ last' = Did("native", FreshId, "running", <<>>)
    /\ UNCHANGED <<rt, tramp, log, views, aborted, heap>>

NextPush ==
    \/ \E h \in HandleIds : eval(h)
    \/ \E argc \in 0..1 : NativeRoom(argc)
    \/ \E h \in HandleIds : push_one(h)
    \/ \E h \in HandleIds : pop_one(h)
    \/ \E h \in HandleIds, needed \in 0..MaxNeeded : ensure_room(h, needed)

SpecPush == InitPush /\ [][NextPush]_vars

\* Numbers in the active frame: what the native's body has pushed (its
\* callee and arguments are a native and strings).
PushedInNative ==
    Len(SelectSeq(SubSeq(stack, Base + 1, Len(stack)), LAMBDA v : v.t = "Number"))

----------------------------------------------------------------------------
\* Wrappers made for callbacks (vm.rs: import_trampoline; native.rs: native!)

\* The wrappers the callbacks that are running were given.
CallbackFrames == {i \in 1..Len(frames) : frames[i].kind \in {"native", "import"}}
BorrowedHandles == {h \in HandleIds : handles[h].own = "NonOwned"}

\* C31: a NonOwned wrapper exists only while the callback it was made for is
\* running: each one is the wrapper of exactly one native or import frame, it
\* is in the Init phase and frees nothing, the Owned wrapper is alive and the
\* runtime not freed as long as one exists, and the return of a callback
\* leaves its wrapper dropped.
C31_BorrowedInsideCallback ==
    /\ \A h \in BorrowedHandles :
          /\ Cardinality({i \in CallbackFrames : frames[i].h = h}) = 1
          /\ handles[h].state = "Init"
          /\ DropCalls(OwnershipOf(h)) = <<>>
    /\ \A i \in CallbackFrames : frames[i].h \in BorrowedHandles
    /\ BorrowedHandles # {} => Cardinality(OwnedHandles) = 1 /\ rt.status = "init"
    /\ rt.status = "freed" => BorrowedHandles = {}
    /\ frames = <<>> => BorrowedHandles = {}
    /\ (last.op \in {"native", "import_trampoline"} /\ last.out # "running" /\ last.h # 0)
          => ~Live(last.h) /\ "jsrFreeVM" \notin Range(last.ffi)

\* C31 witness: a native called by a running eval has returned and its wrapper
\* is dropped, while the Owned wrapper and the runtime are alive.
C31_Witness ==
    /\ last.op = "native" /\ last.out \in {"ok", "err"} /\ ~Live(last.h)
    /\ frames # <<>> /\ Cardinality(OwnedHandles) = 1 /\ rt.status = "init"

----------------------------------------------------------------------------
\* Nested execution (vm.rs: error_trampoline, import_trampoline).  Each
\* activation of a trampoline is a frame: it starts by making a
\* `&mut Trampolines` out of the runtime's custom data, and when a callback is
\* stored it runs the closure through that reference until it returns.

MaxNest == 4

NestFrame(kind, h, by, cb) ==
    [kind |-> kind, h |-> h, by |-> by, cb |-> cb, res |-> "Success", reported |-> FALSE]
Innermost == frames[Len(frames)]
NestOps == {"eval", "compile"}
Trampoline == {"import_trampoline", "error_trampoline"}

InitNest ==
    /\ InitNum!1 /\ InitNum!3 /\ InitNum!5 /\ InitNum!6 /\ InitNum!7
    /\ InitNum!8 /\ InitNum!9 /\ InitNum!11
    /\ \E error_callback \in BOOLEAN, import_callback \in BOOLEAN :
          tramp = [status |-> "alloc", addr |-> BoxAddr,
                   error_callback |-> error_callback,
                   import_callback |-> import_callback]
    /\ handles = [h \in HandleIds |-> IF h = 1 THEN Handle("Init", Owned(BoxAddr))
                                      ELSE NoHandle]
    /\ last = NoOp

\* Host code that may use wrapper h: the top level with the Owned wrapper, or
\* the import callback that is running, with the wrapper lent to it.  The
\* error callback is given no wrapper.
HoldsWrapper(h) ==
    /\ Live(h)
    /\ IF frames = <<>> THEN handles[h].own = "Owned"
       ELSE Innermost.kind = "import_trampoline" /\ Innermost.cb /\ Innermost.h = h

\* eval or compile called on a wrapper: the foreign runtime runs until it
\* returns.
Nested(h, op) ==
    /\ aborted = "no" /\ HoldsWrapper(h)
    /\ Len(frames) < MaxNest
    /\ frames' = Append(frames, NestFrame(op, 0, h, FALSE))
    /\ last' = Did(op, h, "running", <<>>)
    /\ UNCHANGED <<rt, tramp, log, handles, stack, cap, views, aborted, heap>>

Running == aborted = "no" /\ frames # <<>> /\ Innermost.kind \in NestOps

\* The code being run or compiled fails.
NestedRaise(res) ==
    /\ Running /\ Innermost.res = "Success"
    /\ Innermost.kind = "compile" => res \in {"SyntaxErr", "CompileErr"}
    /\ frames' = [frames EXCEPT ![Len(frames)].res = res]
    /\ last' = Did("raise", 0, ErrorKind(res), <<>>)
    /\ UNCHANGED <<rt, tramp, log, handles, stack, cap, views, aborted, heap>>

\* import_trampoline is called for an import statement of the running code,
\* error_trampoline for its failure.  Only import_trampoline makes a wrapper,
\* and only when a callback is stored.
WrapperFor(kind) ==
    IF kind = "import_trampoline" /\ tramp.import_callback THEN FreshId ELSE 0
TrampolineEnter(kind) ==
    /\ Running /\ Len(frames) < MaxNest
    /\ IF kind = "import_trampoline"
       THEN Innermost.kind = "eval" /\ Innermost.res = "Success" /\ FreeIds # {}
       ELSE Innermost.res # "Success" /\ ~Innermost.reported
    /\ LET cb == IF kind = "import_trampoline" THEN tramp.import_callback
                 ELSE tramp.error_callback
       IN /\ frames' = Append(frames, NestFrame(kind, WrapperFor(kind), 0, cb))
          /\ handles' = IF WrapperFor(kind) = 0 THEN handles
                        ELSE [handles EXCEPT ![WrapperFor(kind)] = from_ptr]
          /\ last' = Did(kind, WrapperFor(kind), "running", <<"jsrGetCustomData">>)
    /\ UNCHANGED <<rt, tramp, log, stack, cap, views, aborted, heap>>

\* The trampoline returns to the foreign runtime: a failed import fails the
\* importing code, a report is made once.
TrampolineReturn(found) ==
    /\ aborted = "no" /\ frames # <<>> /\ Innermost.kind \in Trampoline
    /\ ~Innermost.cb => ~found
    /\ Innermost.kind = "error_trampoline" => ~found
    /\ handles' = IF Innermost.h = 0 THEN handles ELSE end_of_scope(handles, Innermost.h)
    /\ frames' = [Caller EXCEPT
                    ![Len(Caller)].res =
                        IF Innermost.kind = "import_trampoline" /\ ~found
                        THEN "RuntimeErr" ELSE @,
                    ![Len(Caller)].reported =
                        IF Innermost.kind = "error_trampoline" THEN TRUE ELSE @]
    /\ last' = Did(Innermost.kind, Innermost.h,
                   IF ~Innermost.cb THEN "skipped" ELSE IF found THEN "module" ELSE "ok", <<>>)
    /\ UNCHANGED <<rt, tramp, log, stack, cap, views, aborted, heap>>

\* eval or compile returns to the host code that called it.
NestedReturn ==
    /\ Running
    /\ Innermost.res # "Success" => Innermost.reported
    /\ frames' = Caller
    /\ last' = Did(Innermost.kind, Innermost.by, ErrorKind(Innermost.res), <<Innermost.res>>)
    /\ UNCHANGED <<rt, tramp, log, handles, stack, cap, views, aborted, heap>>

NextNest ==
    \/ \E h \in HandleIds, op \in NestOps : Nested(h, op)
    \/ \E res \in Errors : NestedRaise(res)
    \/ \E kind \in Trampoline : TrampolineEnter(kind)
    \/ \E found \in BOOLEAN : TrampolineReturn(found)
    \/ NestedReturn

SpecNest == InitNest /\ [][NextNest]_vars

\* The activations that hold a `&mut Trampolines`, and those running a closure.
TrampolineRefs == {i \in 1..Len(frames) : frames[i].kind \in Trampoline}
Entered(kind) == {i \in TrampolineRefs : frames[i].kind = kind /\ frames[i].cb}

\* C32: under nested execution at most one mutable reference to the
\* Trampolines is live at any time, and neither stored closure is entered
\* again while an earlier invocation of it is still running.
C32_OneMutablePath ==
    /\ Cardinality(TrampolineRefs) <= 1
    /\ \A kind \in Trampoline : Cardinality(Entered(kind)) <= 1

----------------------------------------------------------------------------
\* The compiler's output buffer (vm.rs: VM::compile)

\* C33: for every code jsrCompileCode can answer and either answer of the
\* write, compile releases the buffer exactly once when the code is Success,
\* returning Ok after a complete write and the I/O error after a failed one;
\* for a failure code it returns the corresponding kind with the sink
\* untouched and no release; and a compile that returned left the stack, the
\* capacity and the wrappers' phases as they were, on either phase.
C33_CompileReleasesOnce ==
    /\ [](\A res \in CompileCodes, written \in BOOLEAN :
            LET r == compile_runs(res, written)
            IN /\ Count("jsrCompileCode", r.ffi) = 1
               /\ res = "Success" =>
                     /\ Count("jsrBufferFree", r.ffi) = 1
                     /\ r.out = (IF written THEN "ok" ELSE "IO")
                     /\ r.sink = (IF written THEN "written" ELSE "failed")
               /\ res # "Success" =>
                     /\ Count("jsrBufferFree", r.ffi) = 0
                     /\ r.out = ErrorKind(res) /\ r.out \notin {"ok", "IO"}
                     /\ r.sink = "untouched")
    /\ [](last.op = "compile" =>
            /\ \E res \in CompileCodes, written \in BOOLEAN :
                  /\ last.out = compile_runs(res, written).out
                  /\ last.ffi = compile_runs(res, written).ffi
            /\ Live(last.h) /\ aborted = "no")
    /\ [][last'.op = "compile" /\ last' # last =>
            /\ stack' = stack /\ cap' = cap /\ handles' = handles
            /\ rt' = rt /\ frames' = frames]_vars

\* C33 witness: a compile whose write failed returned the I/O error with the
\* buffer released, on a wrapper still in the Uninit phase.
C33_Witness ==
    /\ last.op = "compile" /\ last.out = "IO"
    /\ last.ffi = <<"jsrCompileCode", "jsrBufferFree", "Success">>
    /\ handles[last.h].state = "Uninit"

----------------------------------------------------------------------------
\* What the error callback is given (vm.rs: error_trampoline)

\* error_trampoline as a whole: nothing happens without a stored callback;
\* with one, Error::try_from(res).expect(..) panics for Success, and otherwise
\* the callback gets the kind, the file, the line option and the message.
error_trampoline_call(callback, res, file, line) ==
    IF ~callback THEN [out |-> "skipped", err |-> "none", file |-> "", line |-> <<>>]
    ELSE IF ErrorKind(res) = "ok"
    THEN [out |-> "abort", err |-> "none", file |-> "", line |-> <<>>]
    ELSE [out |-> "called", err |-> ErrorKind(res), file |-> file,
          line |-> LineOption(line)]

ReportedLines == (-2)..3
ReportedFiles == {ScriptPath, "m.jsr", "lib/m.jsr"}

InitErr ==
    /\ InitNum!1 /\ InitNum!3 /\ InitNum!5 /\ InitNum!6 /\ InitNum!7
    /\ InitNum!8 /\ InitNum!9 /\ InitNum!11
    /\ tramp \in {[status |-> "alloc", addr |-> BoxAddr, error_callback |-> e,
                   import_callback |-> FALSE] : e \in BOOLEAN}
    /\ handles = [h \in HandleIds |-> IF h = 1 THEN Handle("Init", Owned(BoxAddr))
                                      ELSE NoHandle]
    /\ last = [op |-> "none", h |-> 0, out |-> "ok", ffi |-> <<>>, res |-> "Success",
               file |-> "", reported |-> 0, err |-> "none", line |-> <<>>]

\* The foreign runtime calls error_trampoline with a result code, a file and
\* a line.
ErrorTrampolineCalled(res, file, line) ==
    /\ aborted = "no"
    /\ LET r == error_trampoline_call(tramp.error_callback, res, file, line)
       IN /\ aborted' = IF r.out = "abort" THEN "panic" ELSE "no"
          /\ last' = [op |-> "error_trampoline", h |-> 0, out |-> r.out,
                      ffi |-> <<"jsrGetCustomData">>, res |-> res, file |-> r.file,
                      reported |-> line, err |-> r.err, line |-> r.line]
    /\ UNCHANGED <<rt, tramp, log, handles, stack, cap, frames, views, heap>>

NextErr ==
    \E res \in JStarResult, file \in ReportedFiles, line \in ReportedLines :
        ErrorTrampolineCalled(res, file, line)

SpecErr == InitErr /\ [][NextErr]_vars

\* C34: the error callback gets the line as an option, Some(line) exactly
\* when the reported line is greater than zero and None when it is zero or
\* negative, together with the kind of the code, which is never Success: a
\* Success code with a callback stored is a panic, and with no callback
\* stored nothing is called.
C34_LineOption ==
    /\ \A res \in JStarResult, file \in ReportedFiles, line \in ReportedLines :
          LET r == error_trampoline_call(TRUE, res, file, line)
          IN /\ r.out = "abort" <=> res = "Success"
             /\ r.out # "abort" =>
                   /\ r.out = "called" /\ r.err = KindOf[res] /\ r.err # "ok"
                   /\ r.file = file
                   /\ line > 0 => r.line = <<line>>
                   /\ line <= 0 => r.line = <<>>
             /\ error_trampoline_call(FALSE, res, file, line).out = "skipped"
    /\ last.op = "error_trampoline" =>
          /\ last.out = "called" =>
                /\ last.err \in {"Syntax", "Compile", "Runtime", "Deserialize", "Version"}
                /\ last.res # "Success"
                /\ last.line = (IF last.reported > 0 THEN <<last.reported>> ELSE <<>>)
          /\ (last.res = "Success" /\ tramp.error_callback) <=> aborted = "panic"
          /\ last.out = "skipped" <=> ~tramp.error_callback

\* C34 witness: the callback was given Some(2) for a syntax error reported at
\* line 2.
C34_Witness ==
    /\ last.op = "error_trampoline" /\ last.out = "called"
    /\ last.err = "Syntax" /\ last.reported = 2 /\ last.line = <<2>>

----------------------------------------------------------------------------
\* The record of a resolved import (vm.rs: import_trampoline; import.rs: Module)

\* Module::source_with_reg / Module::binary_with_reg: the module with a
\* registration table.
RegAddr == BoxAddr + MaxDepth + 1
with_reg(module, reg) == [module EXCEPT !.reg = reg]
\* The bytes the module stands for: the text for Source, the bytecode for
\* Binary.
ModuleBytes(kind, text) == IF kind = "Source" THEN text ELSE compile_in_memory(text)

\* C35: for a module the import callback returns, the result record has a
\* code pointer into a new box that holds exactly the module's bytes (the
\* text without its terminator for Source, the bytecode for Binary) with
\* their length, the module's path, the module's registration table pointer
\* as it was given (null when there is none), a finalizer, and a non-null
\* data pointer that is the address of that box, which is what the finalizer
\* releases, and nothing else.
C35_ImportRecord ==
    /\ \A kind \in ImportKinds, text \in ByteSeqs, reg \in {NullPtr, RegAddr}, a \in BufAddrs :
          ~HasNul(text) =>
             LET module == with_reg(Resolve(kind, text), reg)
                 answer == import_trampoline(TRUE, module, a)
                 r == answer.result
                 box == CHOOSE b \in answer.boxed : TRUE
             IN /\ Cardinality(answer.boxed) = 1
                /\ r.user_data # NullPtr /\ r.user_data = box.addr
                /\ r.code = box.addr /\ box.code = ModuleBytes(kind, text)
                /\ r.code_len = Len(ModuleBytes(kind, text))
                /\ r.path = box.addr /\ box.path = CString(ModulePathName)
                /\ r.reg = reg
                /\ Resolve(kind, text).reg = NullPtr
                /\ r.finalize
                /\ finalize_import(heap \cup answer.boxed, r.user_data)
                      = {b \in heap : b.addr # a}
    /\ (last.op = "import_trampoline" /\ last.out = "module") =>
          LET r == TopFrame.imp
          IN /\ r.user_data # NullPtr /\ Allocated(r.user_data)
             /\ r.code = r.user_data /\ r.path = r.user_data
             /\ At(r.user_data).code = ModuleBytes(last.kind, last.text)
             /\ r.code_len = Len(ModuleBytes(last.kind, last.text))
             /\ At(r.user_data).path = CString(ModulePathName)
             /\ r.reg = NullPtr /\ r.finalize
             /\ finalize_import(heap, r.user_data) = heap \ {At(r.user_data)}

\* C35 witness: the trampoline has returned the record of a module resolved
\* as bytecode compiled from a text of two bytes.
C35_Witness ==
    /\ last.op = "import_trampoline" /\ last.out = "module"
    /\ last.kind = "Binary" /\ Len(last.text) = 2
    /\ TopFrame.imp.code_len = Len(compile_in_memory(last.text))
    /\ heap # {}

----------------------------------------------------------------------------
\* What pop and pop_n leave (vm.rs: VM::pop, VM::pop_n)

\* n calls of pop, one after the other, starting on the stack st of the
\* active frame: each asserts that the frame holds a value and removes the
\* top one.
RECURSIVE Pops(_, _)
Pops(st, n) ==
    IF n = 0 THEN R("ok", <<>>, st)
    ELSE IF Len(st) - Base < 1 THEN R("abort", <<>>, st)
    ELSE Pops(SubSeq(st, 1, Len(st) - 1), n - 1)

\* C36: a pop that returns removes the top value and nothing else, so the
\* values below keep their slots and the one that was second is on top; and
\* a pop_n(n) that returns leaves the stack that n pops, one after the other,
\* leave, while a pop_n(n) that aborts on a positive count is matched by an
\* abort among the n pops.
C36_PopTopOnly ==
    /\ [](\A r \in pop_runs :
            /\ r.out = Pops(stack, 1).out /\ r.stack = Pops(stack, 1).stack
            /\ r.out = "ok" =>
                  /\ Len(r.stack) = Len(stack) - 1 /\ Len(r.stack) >= Base
                  /\ \A i \in 1..Len(r.stack) : r.stack[i] = stack[i])
    /\ [](\A n \in 1..(MaxLen + 1) : \A r \in pop_n_runs(n) :
            /\ r.out = Pops(stack, n).out
            /\ r.out = "ok" => r.stack = Pops(stack, n).stack)
    /\ [][(last'.op \in {"pop", "pop_n"} /\ last'.out = "ok" /\ stack' # stack) =>
            /\ IsPrefix(stack', stack) /\ Len(stack') >= Base
            /\ last'.op = "pop" => Len(stack') = Len(stack) - 1]_vars

\* C36 witness: with two values in the frame a pop has returned, and the one
\* that was pushed first is on top.
C36_Witness ==
    /\ last.op = "pop" /\ last.out = "ok" /\ Height = 1
    /\ stack[Len(stack)] = Str(<<>>)

----------------------------------------------------------------------------
\* The index convention (vm.rs: VM::validate_slot)

\* C37: on a frame holding h values validate_slot is true for a
\* non-negative index i exactly when i < h and for a negative index -k
\* exactly when 1 <= k <= h, so -1 is invalid on an empty frame; and for
\* 1 <= k <= h the indices -k and h - k denote the same slot, every accessor
\* having the same outcomes for the one as for the other.
C37_IndexConvention ==
    (\E h \in HandleIds : Usable(h, "get_number")) =>
       /\ \A i \in 0..(MaxLen + 1) : validate_slot(i) <=> i < Height
       /\ \A k \in 1..(MaxLen + 1) : validate_slot(0 - k) <=> k <= Height
       /\ Height = 0 => ~validate_slot(-1)
       /\ \A k \in 1..Height :
             /\ Pos(0 - k) = Pos(Height - k)
             /\ Pos(0 - k) > Base /\ Pos(0 - k) <= Len(stack)
             /\ is_number_runs(0 - k) = is_number_runs(Height - k)
             /\ get_number_runs(0 - k) = get_number_runs(Height - k)
             /\ check_number_runs(0 - k) = check_number_runs(Height - k)
             /\ is_string_runs(0 - k) = is_string_runs(Height - k)
             /\ get_string_runs(0 - k) = get_string_runs(Height - k)
             /\ check_string_runs(0 - k) = check_string_runs(Height - k)
             /\ \A r \in IndexRuns(0 - k) : r.out # "abort"

\* C37 witness: a typed read has answered inside a native's frame that holds
\* one value and sits above a value of the host.
C37_Witness ==
    /\ last.op = "get_number" /\ last.out \in {"some", "none"}
    /\ frames # <<>> /\ Base > 0 /\ Height = 1
    /\ validate_slot(-1) /\ validate_slot(0) /\ ~validate_slot(1) /\ ~validate_slot(-2)

----------------------------------------------------------------------------
\* The slot a StackRef denotes (vm.rs: VM::get_top, StackRef::get)

\* The position in `st`, the stack with the active frame on top, that
\* StackRef::get reads for a stored index: from_jstar hands the index to the
\* foreign reads as it is.
RefPos(st, index) == Base + (IF index < 0 THEN (Len(st) - Base) + index ELSE index) + 1
PushedValues == {Num(Zero), Str(<<>>)}

\* C38: the StackRef get_top has just returned denotes the slot of the value
\* on top of the stack, and goes on denoting that slot, hence reading that
\* value, after one or two further values have been pushed; a second StackRef
\* taken at the same time stores the same index.
C38_TopRefFixed ==
    (last.op = "get_top" /\ last.out = "ok" /\ aborted = "no") =>
       LET ref == View("StackRef", last.h, get_top_index)
           other == View("StackRef", last.h, get_top_index)
       IN /\ other.index = ref.index
          /\ validate_slot(ref.index)
          /\ RefPos(stack, ref.index) = Len(stack)
          /\ \A x \in PushedValues, y \in PushedValues :
                /\ RefPos(Append(stack, x), ref.index) = RefPos(stack, ref.index)
                /\ RefPos(Append(Append(stack, x), y), ref.index) = RefPos(stack, ref.index)

\* The same for a StackRef taken while the frame holds a value.
TopRefFixedOnValue == Height >= 1 => C38_TopRefFixed

----------------------------------------------------------------------------
\* Populated slots and capacity (vm.rs: VM::validate_stack and the pushes)

\* C39: as long as nothing has aborted, after any sequence of operations,
\* those whose failure path pushes an exception included, the stack holds no
\* more values than its capacity.
C39_WithinCapacity == aborted = "no" => Len(stack) <= cap

====
